---- MODULE Spec2Model ----
(***************************************************************************)
(* Verification model of the quadruped kit controller:                     *)
(*   kits/quad/src/dynamicWalk.cpp        the dynamic-walk control loop    *)
(*   kits/quad/src/quadruped_control.cpp  the hexapod control thread       *)
(*   kits/quad/src/robot/quadruped.cpp    Quadruped: feedback handler,     *)
(*                                        getters, planners, commands      *)
(* Time is counted in milliseconds of std::chrono::steady_clock.           *)
(***************************************************************************)
EXTENDS Integers, Sequences, FiniteSets, TLC

(***************************************************************************)
(* Program constants                                                       *)
(***************************************************************************)
\* dynamicWalk.cpp: double startup_seconds = 1.9
startup_seconds_walk == 1900
\* quadruped_control.cpp: double startup_seconds = 4.5
startup_seconds_hexa == 4500
\* long interval_ms = 5.0
interval_ms == 5
\* Quadruped::num_legs_ and num_joints_per_leg_ (6 legs, 3 joints each)
num_legs_ == 6
num_joints_per_leg_ == 3
\* the duration of one gait cycle, as returned by getTotalTime()
gait_total_time == 20

(***************************************************************************)
(* Bounds of the model                                                     *)
(***************************************************************************)
\* largest overrun of a sleep, and largest time between two clock reads of
\* one tick, in ms
MaxJitter == 1
\* gait cycles followed after DynamicWalk is entered
MaxCycles == 3
\* ms of QUAD_CTRL_NORMAL followed in the hexapod program
MaxNormalMs == 20

\* feedback callbacks delivered
MaxCallbacks == 2

\* SpecPace: the steady_clock is read in units of 1/ClockUnitsPerMs ms
ClockUnitsPerMs == 2
\* SpecPace: longest time from the clock read after the sleep to the clock read
\* at the top of the next iteration (the rest of the iteration), in ms
MaxBodyMs == 7
\* SpecPace: no iteration is started after this many ms
MaxPaceMs == 40

\* SpecStart: calls of reset() followed while the input is not connected
MaxResets == 2

\* SpecQuad: planning calls (planStandUpTraj, prepareTrajectories) followed
MaxPlans == 3

\* SpecForces: largest distance of a stance point from the gravity axis, in units
MaxStanceDist == 3

Max(a, b) == IF a >= b THEN a ELSE b
Min(a, b) == IF a <= b THEN a ELSE b

VARIABLES
  \* ---- the control loop (dynamicWalk.cpp main / quadruped_control.cpp control_thread)
  variant,            \* which program runs: "walk" or "hexa"
  cur_ctrl_state,     \* ctrl_state_type cur_ctrl_state
  clock,              \* the last value read from steady_clock
  prev_time,          \* prev_time
  dt,                 \* dt of the last tick
  state_enter_time,   \* state_enter_time
  state_curr_time,    \* state_curr_time
  state_run_time,     \* state_run_time
  first_time_enter,   \* bool first_time_enter
  control_execute,    \* std::atomic<bool> control_execute
  loop_status,        \* "running", "terminated" (std::terminate), "exited" (loop left)
  app_exit,           \* hexapod: app.exit() was called, app.exec() will return
  tick_state,         \* the state whose handler the last tick ran ("none": no handler)
  calls,              \* the Quadruped calls of the last tick, in order: <<[op, t]>>
  sends,              \* the number of sendCommand() calls of the last tick
  plans_since_entry,  \* planDynamicGait calls since state_enter_time was last set
  \* ---- Quadruped state written by the feedback handler (quadruped.cpp)
  gravity_direction_, \* Eigen::Vector3d gravity_direction_
  joint_angles,       \* per leg, the vector given to QuadLeg::setJointAngles
  updateIMUFilter,    \* bool updateIMUFilter
  imu_filter,         \* MadgwickAHRS imu_filter: updates made, dt of the last one
  latest_fbk_time,    \* latest_fbk_time
  prev_fbk_time,      \* prev_fbk_time
  fbk,                \* what the last callback's GroupFeedback held (see FbkSummary)
  fbk_count,          \* callbacks delivered so far
  eigen_guards_zero,  \* the build's Eigen normalize() leaves a zero vector alone
  \* ---- the two threads, one memory access at a time (SpecConc)
  in_op,                 \* per thread, the Quadruped operation it is in ("idle": none)
  pc,                 \* per thread, the index of its next instruction in that operation
  acc,                \* per thread, the access to a member it is in the middle of
  filter_on,          \* the handler's reading of updateIMUFilter in this callback
  last_op,            \* the last operation the control loop called
  grav_lock_,         \* std::mutex grav_lock_: "free" or the thread that holds it
  fbk_lock_,          \* std::mutex fbk_lock_
  touched,            \* every <<thread, member, "r" or "w">> that has happened
  \* ---- the pacing of one loop, with a clock finer than 1 ms (SpecPace)
  pace_now,           \* now_time as first read in the iteration, before the sleep
  pace_wait,          \* need_to_wait, the argument of sleep_for, in ms
  \* ---- main() before the loop (SpecStart)
  phase,              \* "init_input", "loop" (the control loop runs) or "exited"
  input_connected,    \* what input->isConnected() returns
  diagnostic,         \* "Could not find input joystick." was printed
  exit_code,          \* the value main returned (-1: it has not returned)
  resets,             \* calls of InputManagerMobileIO::reset()
  \* ---- the Quadruped object's command and trajectories (SpecQuad)
  cmd_,               \* GroupCommand cmd_: per leg, the components that hold a value
  written,            \* per leg, the components the running operation has set
  frame,              \* the last frame given to group_->sendCommand
  startup_trajectories, \* std::vector of trajectories, each [leg, plan]
  swing_trajectories,
  stance_trajectories,
  plan_no,            \* planning calls made so far
  quad_op,            \* the last operation called on the object: [op, mode]
  \* ---- Quadruped::computeFootForces as a function of its inputs (SpecForces)
  stance_dist,        \* per leg, factors(i) as first computed: the distance of the
                      \* leg's stance point from the gravity axis
  foot_forces,        \* the matrix returned, one force vector per leg
  forces_done,        \* computeFootForces has returned
  \* ---- the input device and the loop's locals fed from outside (SpecInputs)
  env,                \* "still": zero velocity commands, "varied": any input
  input_calls,        \* the calls made on the input device in the last tick
  translation_velocity_cmd, \* translation_velocity_cmd
  rotation_velocity_cmd,    \* rotation_velocity_cmd
  isFinished,         \* bool isFinished
  \* ---- Quadruped::setCommand as a function of its arguments (SpecSet)
  set_before,         \* cmd_ before the call
  set_args,           \* [index, angles, vels, torques] of the call
  \* ---- main() INIT STEP 3: the controller object (SpecCreate)
  quadruped,          \* std::unique_ptr<Quadruped> quadruped: "unset", "null", "object"
  init_calls          \* the calls made through quadruped before the loop, in order

ctrlVars == <<variant, cur_ctrl_state, clock, prev_time, dt, state_enter_time,
              state_curr_time, state_run_time, first_time_enter, control_execute,
              loop_status, app_exit, tick_state, calls, sends, plans_since_entry>>

fbkVars == <<gravity_direction_, joint_angles, updateIMUFilter, imu_filter,
             latest_fbk_time, prev_fbk_time, fbk, fbk_count, eigen_guards_zero>>

concVars == <<in_op, pc, acc, filter_on, last_op, grav_lock_, fbk_lock_, touched>>

paceVars == <<pace_now, pace_wait>>

startVars == <<phase, input_connected, diagnostic, exit_code, resets>>

quadVars == <<cmd_, written, frame, startup_trajectories, swing_trajectories,
              stance_trajectories, plan_no, quad_op>>

forceVars == <<stance_dist, foot_forces, forces_done>>

inVars == <<env, input_calls, translation_velocity_cmd, rotation_velocity_cmd,
            isFinished>>

setVars == <<set_before, set_args>>

createVars == <<quadruped, init_calls>>

\* everything outside the control loop but the input device
noInVars == <<paceVars, startVars, quadVars, forceVars, setVars, createVars>>

extVars == <<paceVars, startVars, quadVars, forceVars, inVars, setVars,
             createVars>>

vars == <<ctrlVars, fbkVars, concVars, extVars>>

Jitter == 0..MaxJitter

(***************************************************************************)
(* Quadruped operations as seen from the control loop: what each one       *)
(* samples and how many command frames it hands to sendCommand().          *)
(***************************************************************************)
Call(op, t) == [op |-> op, t |-> t]
NoTime == -1

\* Quadruped::sendCommand: one frame to the group per call (group_ is non-null
\* for every Quadruped that create() returns)
sendCommand == 1

\* Quadruped::spreadAllLegs: sets the 18 positions, one sendCommand()
spreadAllLegs_sends == sendCommand
\* Quadruped::execStandUpTraj: per leg getState(curr_time), then one sendCommand()
execStandUpTraj_sends == sendCommand
\* Quadruped::planStandUpTraj: builds the trajectories, sends nothing
planStandUpTraj_sends == 0
\* Quadruped::pushAllLegs(t, duration): one frame per call
pushAllLegs_sends == sendCommand
\* Quadruped::followDynamicGait(t): runTest, one sendCommand() at its end
followDynamicGait_sends == sendCommand
\* Quadruped::planDynamicGait: prepareTrajectories, sends nothing
planDynamicGait_sends == 0
\* Quadruped::getTotalTime
getTotalTime == gait_total_time
\* Quadruped::freeze: one frame that holds every module where it is
freeze_sends == sendCommand
\* Quadruped::startBodyRUpdate: switches the orientation filter on
startBodyRUpdate == updateIMUFilter' = TRUE

(***************************************************************************)
(* The conditions of the two state machines                                *)
(***************************************************************************)
startup_seconds == IF variant = "walk" THEN startup_seconds_walk ELSE startup_seconds_hexa

StandUpDone_strict(run_time, duration) == run_time > duration
\* if (state_run_time.count() >= startup_seconds)
StandUpDone(run_time, duration) == run_time >= duration

CycleOver_late(run_time) == run_time > getTotalTime
CycleOver_any(run_time) == run_time >= 0
\* if (state_run_time.count() >= quadruped -> getTotalTime())
CycleOver(run_time) == run_time >= getTotalTime

\* need_to_wait = std::max(0, (int)(prev_time + interval_ms - now_time))
need_to_wait(now_time) == Max(0, prev_time + interval_ms - now_time)

\* the horizon of the model: the clock value after which no tick is started
Horizon ==
  IF variant = "walk"
    THEN 2 * startup_seconds_walk + MaxCycles * (gait_total_time + interval_ms)
    ELSE startup_seconds_hexa + MaxNormalMs

(***************************************************************************)
(* Initial state: the locals of main() before the loop                     *)
(***************************************************************************)
InitCtrl ==
  /\ variant \in {"walk", "hexa"}
  /\ cur_ctrl_state = IF variant = "walk" THEN "QUAD_CTRL_STAND_UP1"
                                          ELSE "HEXA_CTRL_STAND_UP_PLAN"
  /\ clock = 0
  /\ prev_time = 0
  /\ dt = 0
  /\ state_enter_time = 0
  /\ state_curr_time = 0
  /\ state_run_time = 0
  /\ first_time_enter = FALSE
  /\ control_execute = TRUE
  /\ loop_status = "running"
  /\ app_exit = FALSE
  /\ tick_state = "none"
  /\ calls = <<>>
  /\ sends = 0
  /\ plans_since_entry = 0

(***************************************************************************)
(* The head of one loop iteration: the loop condition, the pacing sleep,   *)
(* dt and prev_time.  o is the overrun of the sleep.                       *)
(***************************************************************************)
NowTime(o) == clock + need_to_wait(clock) + o

TickHead(o) ==
  /\ phase = "loop"
  /\ loop_status = "running"
  /\ control_execute
  /\ clock < Horizon
  /\ dt' = NowTime(o) - prev_time
  /\ prev_time' = NowTime(o)

(***************************************************************************)
(* The input device, read at the top of every iteration before the switch  *)
(***************************************************************************)
\* the velocity commands the joystick can deliver, the results of the
\* reached-the-goal test of spreadAllLegs / pushAllLegs on the feedback
VelCmds == IF env = "varied" THEN {0, 1} ELSE {0}
Reached == IF env = "varied" THEN BOOLEAN ELSE {FALSE}

InputHead_read_first == <<"getQuitButtonPushed", "update">>
\* input->update(); if (input->getQuitButtonPushed())
InputHead == <<"update", "getQuitButtonPushed">>
\* translation_velocity_cmd = ...; rotation_velocity_cmd = ...
InputCmds == <<"getTranslationVelocityCmd", "getRotationVelocityCmd">>

\* an iteration that reaches the switch: update, the quit test, both commands
Input_read ==
  /\ input_calls' = InputHead \o InputCmds
  /\ translation_velocity_cmd' \in VelCmds
  /\ rotation_velocity_cmd' \in VelCmds
  /\ UNCHANGED env

\* dynamicWalk.cpp: the quit button ends the process before the commands are read
Input_quit ==
  /\ input_calls' = InputHead
  /\ UNCHANGED <<env, translation_velocity_cmd, rotation_velocity_cmd>>

(***************************************************************************)
(* dynamicWalk.cpp                                                         *)
(***************************************************************************)
Leave_STAND_UP_when_reached(run_time, finished) ==
  StandUpDone(run_time, startup_seconds) /\ finished
\* if (state_run_time.count() >= startup_seconds): the value kept in isFinished
\* is not part of the test
Leave_STAND_UP(run_time, finished) == StandUpDone(run_time, startup_seconds)

\* input->getQuitButtonPushed(): std::terminate() before the switch
Walk_Quit(o) ==
  /\ variant = "walk"
  /\ TickHead(o)
  /\ clock' = NowTime(o)
  /\ loop_status' = "terminated"
  /\ tick_state' = "none"
  /\ calls' = <<>>
  /\ sends' = 0
  /\ UNCHANGED <<variant, cur_ctrl_state, state_enter_time, state_curr_time,
                 state_run_time, first_time_enter, control_execute, app_exit,
                 plans_since_entry>>
  /\ UNCHANGED fbkVars
  /\ UNCHANGED concVars
  /\ Input_quit
  /\ UNCHANGED isFinished
  /\ UNCHANGED noInVars

Walk_after_STAND_UP1_skip == "QUAD_DYNAMIC_WALK"
\* cur_ctrl_state = QUAD_CTRL_STAND_UP2
Walk_after_STAND_UP1 == "QUAD_CTRL_STAND_UP2"

\* case QUAD_CTRL_STAND_UP1
Walk_STAND_UP1(o, l) ==
  /\ variant = "walk"
  /\ cur_ctrl_state = "QUAD_CTRL_STAND_UP1"
  /\ TickHead(o)
  /\ state_curr_time' = NowTime(o)
  /\ state_run_time' = state_curr_time' - state_enter_time
  /\ calls' = <<Call("spreadAllLegs", NoTime)>>
  /\ sends' = spreadAllLegs_sends
  /\ isFinished' \in Reached
  /\ IF Leave_STAND_UP(state_run_time', isFinished')
       THEN /\ cur_ctrl_state' = Walk_after_STAND_UP1
            /\ state_enter_time' = state_curr_time' + l
            /\ plans_since_entry' = 0
       ELSE UNCHANGED <<cur_ctrl_state, state_enter_time, plans_since_entry>>
  /\ clock' = state_curr_time' + l
  /\ tick_state' = "QUAD_CTRL_STAND_UP1"
  /\ UNCHANGED <<variant, first_time_enter, control_execute, loop_status, app_exit>>
  /\ UNCHANGED fbkVars
  /\ UNCHANGED concVars
  /\ Input_read
  /\ UNCHANGED noInVars

\* case QUAD_CTRL_STAND_UP2
Walk_STAND_UP2(o, l) ==
  /\ variant = "walk"
  /\ cur_ctrl_state = "QUAD_CTRL_STAND_UP2"
  /\ TickHead(o)
  /\ state_curr_time' = NowTime(o)
  /\ state_run_time' = state_curr_time' - state_enter_time
  /\ calls' = <<Call("pushAllLegs", state_run_time')>>
  /\ sends' = pushAllLegs_sends
  /\ isFinished' \in Reached
  /\ IF Leave_STAND_UP(state_run_time', isFinished')
       THEN /\ startBodyRUpdate
            /\ cur_ctrl_state' = "QUAD_DYNAMIC_WALK"
            /\ first_time_enter' = TRUE
            /\ state_enter_time' = state_curr_time' + l
            /\ plans_since_entry' = 0
       ELSE UNCHANGED <<cur_ctrl_state, first_time_enter, state_enter_time,
                        plans_since_entry, updateIMUFilter>>
  /\ clock' = state_curr_time' + l
  /\ tick_state' = "QUAD_CTRL_STAND_UP2"
  /\ UNCHANGED <<variant, control_execute, loop_status, app_exit>>
  /\ UNCHANGED <<gravity_direction_, joint_angles, imu_filter, latest_fbk_time,
                 prev_fbk_time, fbk, fbk_count, eigen_guards_zero>>
  /\ UNCHANGED concVars
  /\ Input_read
  /\ UNCHANGED noInVars

WalkReset_keep_flag == first_time_enter
\* first_time_enter = true (in the branch that resets state_enter_time)
WalkReset_flag == TRUE

WalkPlan_keep_flag == first_time_enter
\* first_time_enter = false (after planDynamicGait)
WalkPlan_flag == FALSE

\* case QUAD_DYNAMIC_WALK
Walk_DYNAMIC_WALK(o, l) ==
  /\ variant = "walk"
  /\ cur_ctrl_state = "QUAD_DYNAMIC_WALK"
  /\ TickHead(o)
  /\ state_curr_time' = NowTime(o)
  /\ state_run_time' = state_curr_time' - state_enter_time
  /\ IF CycleOver(state_run_time')
       THEN \* the cycle is over: reset the entry time and leave the switch
            /\ state_enter_time' = state_curr_time' + l
            /\ first_time_enter' = WalkReset_flag
            /\ plans_since_entry' = 0
            /\ calls' = <<>>
            /\ sends' = 0
       ELSE /\ IF first_time_enter
                 THEN /\ calls' = <<Call("planDynamicGait", NoTime),
                                    Call("followDynamicGait", state_run_time')>>
                      /\ sends' = planDynamicGait_sends + followDynamicGait_sends
                      /\ plans_since_entry' = plans_since_entry + 1
                      /\ first_time_enter' = WalkPlan_flag
                 ELSE /\ calls' = <<Call("followDynamicGait", state_run_time')>>
                      /\ sends' = followDynamicGait_sends
                      /\ UNCHANGED <<plans_since_entry, first_time_enter>>
            /\ UNCHANGED state_enter_time
  /\ clock' = state_curr_time' + l
  /\ tick_state' = "QUAD_DYNAMIC_WALK"
  /\ UNCHANGED <<variant, cur_ctrl_state, control_execute, loop_status, app_exit>>
  /\ UNCHANGED fbkVars
  /\ UNCHANGED concVars
  /\ Input_read
  /\ UNCHANGED isFinished
  /\ UNCHANGED noInVars

(***************************************************************************)
(* quadruped_control.cpp                                                   *)
(***************************************************************************)
Hexa_after_plan_stay == "HEXA_CTRL_STAND_UP_PLAN"
\* cur_ctrl_state = HEXA_CTRL_STAND_UP (after planStandUpTraj)
Hexa_after_plan == "HEXA_CTRL_STAND_UP"

\* case HEXA_CTRL_STAND_UP_PLAN
Hexa_STAND_UP_PLAN(o, l, quit) ==
  /\ variant = "hexa"
  /\ cur_ctrl_state = "HEXA_CTRL_STAND_UP_PLAN"
  /\ TickHead(o)
  /\ app_exit' = (app_exit \/ quit)
  /\ calls' = <<Call("planStandUpTraj", NoTime)>>
  /\ sends' = planStandUpTraj_sends
  /\ cur_ctrl_state' = Hexa_after_plan
  /\ state_enter_time' = NowTime(o) + l
  /\ plans_since_entry' = 0
  /\ clock' = NowTime(o) + l
  /\ tick_state' = "HEXA_CTRL_STAND_UP_PLAN"
  /\ UNCHANGED <<variant, state_curr_time, state_run_time, first_time_enter,
                 control_execute, loop_status>>
  /\ UNCHANGED fbkVars
  /\ UNCHANGED concVars
  /\ Input_read
  /\ UNCHANGED isFinished
  /\ UNCHANGED noInVars

\* case HEXA_CTRL_STAND_UP
Hexa_STAND_UP(o, l, quit) ==
  /\ variant = "hexa"
  /\ cur_ctrl_state = "HEXA_CTRL_STAND_UP"
  /\ TickHead(o)
  /\ app_exit' = (app_exit \/ quit)
  /\ state_curr_time' = NowTime(o)
  /\ state_run_time' = state_curr_time' - state_enter_time
  /\ calls' = <<Call("execStandUpTraj", state_run_time')>>
  /\ sends' = execStandUpTraj_sends
  /\ cur_ctrl_state' = IF StandUpDone(state_run_time', startup_seconds)
                         THEN "QUAD_CTRL_NORMAL" ELSE cur_ctrl_state
  /\ clock' = state_curr_time' + l
  /\ tick_state' = "HEXA_CTRL_STAND_UP"
  /\ UNCHANGED <<variant, state_enter_time, first_time_enter, control_execute,
                 loop_status, plans_since_entry>>
  /\ UNCHANGED fbkVars
  /\ UNCHANGED concVars
  /\ Input_read
  /\ UNCHANGED isFinished
  /\ UNCHANGED noInVars

\* case QUAD_CTRL_NORMAL
Hexa_NORMAL(o, quit) ==
  /\ variant = "hexa"
  /\ cur_ctrl_state = "QUAD_CTRL_NORMAL"
  /\ TickHead(o)
  /\ app_exit' = (app_exit \/ quit)
  /\ calls' = <<>>
  /\ sends' = 0
  /\ clock' = NowTime(o)
  /\ tick_state' = "QUAD_CTRL_NORMAL"
  /\ UNCHANGED <<variant, cur_ctrl_state, state_enter_time, state_curr_time,
                 state_run_time, first_time_enter, control_execute, loop_status,
                 plans_since_entry>>
  /\ UNCHANGED fbkVars
  /\ UNCHANGED concVars
  /\ Input_read
  /\ UNCHANGED isFinished
  /\ UNCHANGED noInVars

Hexa_stored_true == TRUE
\* control_execute.store(false, std::memory_order_release)
Hexa_stored == FALSE

\* main: app.exec() returns after app.exit(); control_execute.store(false)
Hexa_MainStore ==
  /\ variant = "hexa"
  /\ app_exit
  /\ control_execute
  /\ control_execute' = Hexa_stored
  /\ UNCHANGED <<variant, cur_ctrl_state, clock, prev_time, dt, state_enter_time,
                 state_curr_time, state_run_time, first_time_enter, loop_status,
                 app_exit, tick_state, calls, sends, plans_since_entry>>
  /\ UNCHANGED fbkVars
  /\ UNCHANGED concVars
  /\ UNCHANGED extVars

\* control_thread: while (control_execute.load()) is false, the thread ends
Hexa_LoopExit ==
  /\ variant = "hexa"
  /\ loop_status = "running"
  /\ ~control_execute
  /\ loop_status' = "exited"
  /\ UNCHANGED <<variant, cur_ctrl_state, clock, prev_time, dt, state_enter_time,
                 state_curr_time, state_run_time, first_time_enter, control_execute,
                 app_exit, tick_state, calls, sends, plans_since_entry>>
  /\ UNCHANGED fbkVars
  /\ UNCHANGED concVars
  /\ UNCHANGED extVars

\* the states each switch has a case for
Handled ==
  IF variant = "walk"
    THEN {"QUAD_CTRL_STAND_UP1", "QUAD_CTRL_STAND_UP2", "QUAD_DYNAMIC_WALK"}
    ELSE {"HEXA_CTRL_STAND_UP_PLAN", "HEXA_CTRL_STAND_UP", "QUAD_CTRL_NORMAL"}

\* dynamicWalk.cpp  case CTRL_STATES_COUNT: default: quadruped -> freeze(); break;
Walk_default(o) ==
  /\ variant = "walk"
  /\ cur_ctrl_state \notin Handled
  /\ TickHead(o)
  /\ calls' = <<Call("freeze", NoTime)>>
  /\ sends' = freeze_sends
  /\ clock' = NowTime(o)
  /\ tick_state' = "default"
  /\ UNCHANGED <<variant, cur_ctrl_state, state_enter_time, state_curr_time,
                 state_run_time, first_time_enter, control_execute, loop_status,
                 app_exit, plans_since_entry>>
  /\ UNCHANGED fbkVars
  /\ UNCHANGED concVars
  /\ Input_read
  /\ UNCHANGED isFinished
  /\ UNCHANGED noInVars

\* quadruped_control.cpp  case CTRL_STATES_COUNT: default: break;
Hexa_default(o, quit) ==
  /\ variant = "hexa"
  /\ cur_ctrl_state \notin Handled
  /\ TickHead(o)
  /\ app_exit' = (app_exit \/ quit)
  /\ calls' = <<>>
  /\ sends' = 0
  /\ clock' = NowTime(o)
  /\ tick_state' = "default"
  /\ UNCHANGED <<variant, cur_ctrl_state, state_enter_time, state_curr_time,
                 state_run_time, first_time_enter, control_execute, loop_status,
                 plans_since_entry>>
  /\ UNCHANGED fbkVars
  /\ UNCHANGED concVars
  /\ Input_read
  /\ UNCHANGED isFinished
  /\ UNCHANGED noInVars

\* the loops entered with cur_ctrl_state at a value no case handles
NextDefault ==
  \/ \E o \in Jitter : Walk_Quit(o)
  \/ \E o \in Jitter : Walk_default(o)
  \/ \E o \in Jitter, quit \in BOOLEAN : Hexa_default(o, quit)
  \/ Hexa_MainStore
  \/ Hexa_LoopExit

NextCtrl ==
  \/ \E o \in Jitter : Walk_Quit(o)
  \/ \E o \in Jitter, l \in Jitter : Walk_STAND_UP1(o, l)
  \/ \E o \in Jitter, l \in Jitter : Walk_STAND_UP2(o, l)
  \/ \E o \in Jitter, l \in Jitter : Walk_DYNAMIC_WALK(o, l)
  \/ \E o \in Jitter, l \in Jitter, quit \in BOOLEAN : Hexa_STAND_UP_PLAN(o, l, quit)
  \/ \E o \in Jitter, l \in Jitter, quit \in BOOLEAN : Hexa_STAND_UP(o, l, quit)
  \/ \E o \in Jitter, quit \in BOOLEAN : Hexa_NORMAL(o, quit)
  \/ Hexa_MainStore
  \/ Hexa_LoopExit

(***************************************************************************)
(* Doubles and vectors.  A double is a number or NaN; a position-free      *)
(* vector (a direction, a sum of directions) is kept exactly as            *)
(* v / sqrt(den2) with integer v, so that normalising is exact.            *)
(***************************************************************************)
D(x) == [nan |-> FALSE, v |-> x]
NaN == [nan |-> TRUE, v |-> 0]
\* std::isnan
isnan(d) == d.nan

Legs == 0..(num_legs_ - 1)
JointsOfLeg == 0..(num_joints_per_leg_ - 1)
Joints == 0..(num_legs_ * num_joints_per_leg_ - 1)

Abs(x) == IF x < 0 THEN -x ELSE x
RECURSIVE Gcd(_, _)
Gcd(a, b) == IF b = 0 THEN a ELSE Gcd(b, a % b)
Gcd3(v) == Gcd(Gcd(Abs(v[1]), Abs(v[2])), Abs(v[3]))

\* per-leg down readings are unit vectors given in fifths
Scale == 5
NaNVec == <<NaN, NaN, NaN>>
HasNaN(v) == \E k \in 1..3 : isnan(v[k])
Ints(v) == <<v[1].v, v[2].v, v[3].v>>
Dbls(w) == <<D(w[1]), D(w[2]), D(w[3])>>
SqNorm(w) == w[1] * w[1] + w[2] * w[2] + w[3] * w[3]

\* the value w / sqrt(den2) in lowest terms
Canon(w, den2) ==
  LET g == Gcd3(w)
      k == IF g = 0 THEN 1
           ELSE CHOOSE c \in 1..g :
                  /\ g % c = 0 /\ den2 % (c * c) = 0
                  /\ \A e \in 1..g : (g % e = 0 /\ den2 % (e * e) = 0) => e <= c
  IN  IF g = 0 THEN [v |-> Dbls(<<0, 0, 0>>), den2 |-> 1]
      ELSE [v |-> Dbls(<<w[1] \div k, w[2] \div k, w[3] \div k>>),
            den2 |-> den2 \div (k * k)]
\* a reading or a sum of readings, as a value
Raw(v) == IF HasNaN(v) THEN [v |-> v, den2 |-> 1] ELSE Canon(Ints(v), Scale * Scale)
ZeroValue == Canon(<<0, 0, 0>>, 1)
NaNValue == [v |-> NaNVec, den2 |-> 1]
IsUnit(val) == ~HasNaN(val.v) /\ SqNorm(Ints(val.v)) = val.den2
IsZero(val) == ~HasNaN(val.v) /\ SqNorm(Ints(val.v)) = 0

\* operator+ of two vectors of doubles
VecAdd(a, b) ==
  [k \in 1..3 |-> IF isnan(a[k]) \/ isnan(b[k]) THEN NaN ELSE D(a[k].v + b[k].v)]

\* Eigen normalize(): v / v.norm().  On a vector of squared norm 0 (or NaN) the
\* guarded implementation (if (z > 0) v /= sqrt(z)) leaves the vector as it is,
\* the unguarded one divides by it, which gives NaN in every component.
normalize(v, guarded) ==
  IF HasNaN(v) THEN (IF guarded THEN Raw(v) ELSE NaNValue)
  ELSE IF SqNorm(Ints(v)) = 0 THEN (IF guarded THEN ZeroValue ELSE NaNValue)
  ELSE Canon(Ints(v), SqNorm(Ints(v)))

ValidReading_first_only(g) == ~isnan(g[1])
\* if (!std::isnan(my_grav[0]) && !std::isnan(my_grav[1]) && !std::isnan(my_grav[2]))
ValidReading(g) == ~isnan(g[1]) /\ ~isnan(g[2]) /\ ~isnan(g[3])

RECURSIVE SumValid(_, _)
\* for (i < num_legs_) if (valid) avg_grav += my_grav;   from leg i on
SumValid(grav, i) ==
  IF i >= num_legs_ THEN Dbls(<<0, 0, 0>>)
  ELSE IF ValidReading(grav[i]) THEN VecAdd(grav[i], SumValid(grav, i + 1))
  ELSE SumValid(grav, i + 1)

FusedGravity_unnormalized(grav, guarded) == Raw(SumValid(grav, 0))
\* avg_grav.setZero(); the loop over the legs; avg_grav.normalize()
FusedGravity(grav, guarded) == normalize(SumValid(grav, 0), guarded)

PosVec_absent_is_zero(pos, i) ==
  [j \in JointsOfLeg |->
     IF pos[i * num_joints_per_leg_ + j].has
       THEN D(pos[i * num_joints_per_leg_ + j].v) ELSE D(0)]
\* FBK 2: pos_vec(j) = pos ? pos.get() : quiet_NaN
PosVec(pos, i) ==
  [j \in JointsOfLeg |->
     IF pos[i * num_joints_per_leg_ + j].has
       THEN D(pos[i * num_joints_per_leg_ + j].v) ELSE NaN]

(***************************************************************************)
(* The feedback the transport can deliver: per leg the down vector the     *)
(* leg's module reports, rotated into the body frame (my_grav), and per    *)
(* joint an optional position.                                             *)
(***************************************************************************)
Down1 == <<D(0), D(0), D(-5)>>
Down2 == <<D(3), D(0), D(-4)>>
Directions == {Down1, Down2}
\* a module whose orientation has a NaN in it gives a down vector with NaN
PartNaN == <<D(0), NaN, D(-5)>>
\* every leg reports the direction g, but for the legs in nan (no orientation)
UniformReadings ==
  { [i \in Legs |-> IF i \in nan THEN NaNVec ELSE g] :
      nan \in SUBSET Legs, g \in Directions }
\* every leg reports g, but leg 1, which reports h
MixedReadings ==
  { [i \in Legs |-> IF i = 1 THEN h ELSE g] :
      g \in Directions, h \in Directions \cup {PartNaN} }
GravReadings == UniformReadings \cup MixedReadings
PosReadings ==
  { [j \in Joints |-> [has |-> j \notin absent, v |-> j + 1]] :
      absent \in {{}, {4}, Joints} }
\* ms between two callbacks
FbkGaps == {1, 2}

\* members of Quadruped without an initialiser: any value
UninitVectors == {ZeroValue, NaNValue, Raw(Down1), Raw(Dbls(<<1, 2, 3>>))}

\* what a GroupFeedback held: how many legs had a complete down vector, the
\* different vectors they reported, and the joints without a position
FbkSummary(grav, pos) ==
  [valid  |-> Cardinality({i \in Legs : \A k \in 1..3 : ~grav[i][k].nan}),
   downs  |-> {grav[i] : i \in {n \in Legs : \A k \in 1..3 : ~grav[n][k].nan}},
   absent |-> {j \in Joints : ~pos[j].has}]
NoFbk == [valid |-> 0, downs |-> {}, absent |-> Joints]

InitFbkIdle ==
  /\ gravity_direction_ = ZeroValue
  /\ joint_angles = [i \in Legs |-> [j \in JointsOfLeg |-> NaN]]
  /\ updateIMUFilter = FALSE
  /\ imu_filter = [updates |-> 0, dt |-> 0]
  /\ latest_fbk_time = 0
  /\ prev_fbk_time = 0
  /\ fbk = NoFbk
  /\ fbk_count = 0
  /\ eigen_guards_zero = TRUE

\* Quadruped::Quadruped: updateIMUFilter = false, the legs, the handler
InitFbk ==
  /\ gravity_direction_ \in UninitVectors
  /\ joint_angles = [i \in Legs |-> [j \in JointsOfLeg |-> NaN]]
  /\ updateIMUFilter = FALSE
  /\ imu_filter = [updates |-> 0, dt |-> 0]
  /\ latest_fbk_time = 0
  /\ prev_fbk_time = 0
  /\ fbk = NoFbk
  /\ fbk_count = 0
  /\ eigen_guards_zero \in BOOLEAN

StorePrevFbkTime_with_filter(latest, prev, filtering) ==
  IF filtering THEN latest ELSE prev
\* prev_fbk_time = latest_fbk_time, the last statement of the handler, outside
\* the if (updateIMUFilter)
StorePrevFbkTime(latest, prev, filtering) == latest

\* the feedback handler registered by Quadruped::Quadruped, for one GroupFeedback
\* delivered gap ms after the previous one
FeedbackHandler(grav, pos, gap) ==
  /\ fbk_count < MaxCallbacks
  /\ fbk_count' = fbk_count + 1
  /\ fbk' = FbkSummary(grav, pos)
  \* steady_clock::now(), gap after the clock was last read by the handler
  /\ latest_fbk_time' = latest_fbk_time + gap
  \* FBK 1
  /\ gravity_direction_' = FusedGravity(grav, eigen_guards_zero)
  \* the complementary filter, with dt = latest_fbk_time - prev_fbk_time
  /\ imu_filter' = IF updateIMUFilter
                     THEN [updates |-> imu_filter.updates + 1,
                           dt |-> latest_fbk_time' - prev_fbk_time]
                     ELSE imu_filter
  \* FBK 2
  /\ joint_angles' = [i \in Legs |-> PosVec(pos, i)]
  /\ prev_fbk_time' = StorePrevFbkTime(latest_fbk_time', prev_fbk_time, updateIMUFilter)
  /\ UNCHANGED <<updateIMUFilter, eigen_guards_zero>>
  /\ UNCHANGED ctrlVars
  /\ UNCHANGED concVars
  /\ UNCHANGED extVars

\* the control loop reaches startBodyRUpdate() between two callbacks
Fbk_startBodyRUpdate ==
  /\ ~updateIMUFilter
  /\ startBodyRUpdate
  /\ UNCHANGED <<gravity_direction_, joint_angles, imu_filter, latest_fbk_time,
                 prev_fbk_time, fbk, fbk_count, eigen_guards_zero>>
  /\ UNCHANGED ctrlVars
  /\ UNCHANGED concVars
  /\ UNCHANGED extVars

NextFbk ==
  \/ \E grav \in GravReadings, pos \in PosReadings, gap \in FbkGaps :
       FeedbackHandler(grav, pos, gap)
  \/ Fbk_startBodyRUpdate

\* the control loop is not followed in SpecFbk: its variables stay as main() set them
InitCtrlIdle ==
  /\ variant = "walk"
  /\ cur_ctrl_state = "QUAD_CTRL_STAND_UP1"
  /\ clock = 0
  /\ prev_time = 0
  /\ dt = 0
  /\ state_enter_time = 0
  /\ state_curr_time = 0
  /\ state_run_time = 0
  /\ first_time_enter = FALSE
  /\ control_execute = TRUE
  /\ loop_status = "running"
  /\ app_exit = FALSE
  /\ tick_state = "none"
  /\ calls = <<>>
  /\ sends = 0
  /\ plans_since_entry = 0

(***************************************************************************)
(* The two threads at the grain of one access to a member of Quadruped.    *)
(* An operation is the sequence of its lock operations and member accesses *)
(* in program order; an access takes two steps (it begins, it ends), so    *)
(* that two accesses can be seen to overlap.                               *)
(***************************************************************************)
Threads == {"ctl", "fbk"}
NoAccess == [var |-> "none", kind |-> "none"]

Lock(m) == [kind |-> "lock", var |-> m]
Unlock(m) == [kind |-> "unlock", var |-> m]
Read(v) == [kind |-> "r", var |-> v]
Write(v) == [kind |-> "w", var |-> v]
\* a write that happens only when the handler found updateIMUFilter set
WriteIfFilter(v) == [kind |-> "w?", var |-> v]

RECURSIVE Repeat(_, _)
Repeat(seq, n) == IF n = 0 THEN <<>> ELSE seq \o Repeat(seq, n - 1)

\* the feedback handler
Script_FeedbackHandler ==
  <<Lock("fbk_lock_"), Write("latest_fbk_time"), Read("prev_fbk_time")>>
  \o Repeat(<<Read("base_frame")>>, num_legs_)
  \o <<Lock("grav_lock_"), Write("gravity_direction_"), Unlock("grav_lock_"),
       Read("updateIMUFilter"), WriteIfFilter("imu_filter")>>
  \o Repeat(<<Write("joint_angles")>>, num_legs_)
  \o <<Write("prev_fbk_time"), Unlock("fbk_lock_")>>

Script_getGravityDirection_keeps_lock ==
  <<Lock("grav_lock_"), Read("gravity_direction_")>>
\* Quadruped::getGravityDirection
Script_getGravityDirection ==
  <<Lock("grav_lock_"), Read("gravity_direction_"), Unlock("grav_lock_")>>
\* Quadruped::getLegJointAngles: legs_[index]->getJointAngle()
Script_getLegJointAngles == <<Read("joint_angles")>>
\* Quadruped::computeFootForces: grav = -gravity_direction_, the legs' base frames
Script_computeFootForces ==
  <<Read("gravity_direction_")>> \o Repeat(<<Read("base_frame")>>, num_legs_)
\* Quadruped::sendCommand
Script_sendCommand == <<Read("cmd_")>>
\* Quadruped::planStandUpTraj
Script_planStandUpTraj ==
  Repeat(Script_getLegJointAngles
           \o <<Read("base_frame"), Write("startup_trajectories")>>, num_legs_)
\* Quadruped::execStandUpTraj
Script_execStandUpTraj ==
  Repeat(<<Read("startup_trajectories")>> \o Script_getGravityDirection
           \o Script_computeFootForces \o <<Write("cmd_")>>, num_legs_)
  \o Script_sendCommand
\* Quadruped::spreadAllLegs
Script_spreadAllLegs ==
  <<Write("is_exec_traj")>>
  \o Repeat(<<Read("base_frame"), Write("cmd_")>>, num_legs_)
  \o Repeat(<<Read("joint_angles")>>, num_legs_)
  \o Script_sendCommand
\* Quadruped::prepareTrajectories
Script_prepareTrajectories ==
  <<Write("swing_trajectories")>>
  \o Repeat(<<Read("base_frame"), Write("swing_trajectories")>>, 2)
  \o <<Write("stance_trajectories")>>
  \o Repeat(<<Read("base_frame"), Read("joint_angles"),
              Write("stance_trajectories")>>, 2)
\* Quadruped::runTest
Script_runTest ==
  Script_getGravityDirection
  \o Repeat(<<Read("base_frame"), Write("cmd_")>>, 2)
  \o Repeat(<<Read("gravity_direction_"), Read("swing_trajectories"), Write("cmd_"),
              Read("gravity_direction_"), Write("cmd_")>>, 2)
  \o Repeat(<<Read("stance_trajectories"), Write("cmd_"),
              Read("gravity_direction_"), Write("cmd_")>>, 2)
  \o Script_sendCommand
\* Quadruped::startBodyRUpdate: updateIMUFilter = true
Script_startBodyRUpdate == <<Write("updateIMUFilter")>>
\* Quadruped::pushAllLegs(t, duration): the stand-up trajectory with the torque
\* of the live gravity direction, as execStandUpTraj
Script_pushAllLegs == Script_execStandUpTraj
\* Quadruped::planDynamicGait builds the swing and stance trajectories
Script_planDynamicGait == Script_prepareTrajectories
\* Quadruped::followDynamicGait samples them and sends one frame
Script_followDynamicGait == Script_runTest

Script(o) ==
  CASE o = "handler" -> Script_FeedbackHandler
    [] o = "planStandUpTraj" -> Script_planStandUpTraj
    [] o = "execStandUpTraj" -> Script_execStandUpTraj
    [] o = "spreadAllLegs" -> Script_spreadAllLegs
    [] o = "pushAllLegs" -> Script_pushAllLegs
    [] o = "startBodyRUpdate" -> Script_startBodyRUpdate
    [] o = "planDynamicGait" -> Script_planDynamicGait
    [] o = "followDynamicGait" -> Script_followDynamicGait
    [] OTHER -> <<>>

\* the operations the control loop can call next, in the order of its switch
NextOps(v, last) ==
  IF v = "hexa"
    THEN CASE last = "start" -> {"planStandUpTraj"}
           [] OTHER -> {"execStandUpTraj"}
    ELSE CASE last = "start" -> {"spreadAllLegs"}
           [] last = "spreadAllLegs" -> {"spreadAllLegs", "pushAllLegs"}
           [] last = "pushAllLegs" -> {"pushAllLegs", "startBodyRUpdate"}
           [] last = "startBodyRUpdate" -> {"planDynamicGait"}
           [] last = "planDynamicGait" -> {"followDynamicGait"}
           [] OTHER -> {"followDynamicGait", "planDynamicGait"}

InitConcIdle ==
  /\ in_op = [t \in Threads |-> "idle"]
  /\ pc = [t \in Threads |-> 1]
  /\ acc = [t \in Threads |-> NoAccess]
  /\ filter_on = FALSE
  /\ last_op = "start"
  /\ grav_lock_ = "free"
  /\ fbk_lock_ = "free"
  /\ touched = {}

Instr(t) == Script(in_op[t])[pc[t]]
InScript(t) == in_op[t] # "idle" /\ pc[t] <= Len(Script(in_op[t]))
LockOf(m) == IF m = "grav_lock_" THEN grav_lock_ ELSE fbk_lock_

concFixed == <<gravity_direction_, joint_angles, imu_filter, latest_fbk_time,
               prev_fbk_time, fbk, fbk_count, eigen_guards_zero>>
ctrlFixed == <<cur_ctrl_state, clock, prev_time, dt, state_enter_time,
               state_curr_time, state_run_time, first_time_enter, control_execute,
               loop_status, app_exit, tick_state, calls, sends, plans_since_entry>>

\* the control loop calls its next operation
Ctl_Call(o) ==
  /\ in_op["ctl"] = "idle"
  /\ o \in NextOps(variant, last_op)
  /\ in_op' = [in_op EXCEPT !["ctl"] = o]
  /\ pc' = [pc EXCEPT !["ctl"] = 1]
  /\ last_op' = o
  /\ UNCHANGED <<acc, filter_on, grav_lock_, fbk_lock_, touched, updateIMUFilter,
                 variant>>
  /\ UNCHANGED <<concFixed, ctrlFixed>>
  /\ UNCHANGED extVars

\* the transport delivers a GroupFeedback: the handler starts on its thread
Fbk_Deliver ==
  /\ in_op["fbk"] = "idle"
  /\ in_op' = [in_op EXCEPT !["fbk"] = "handler"]
  /\ pc' = [pc EXCEPT !["fbk"] = 1]
  /\ UNCHANGED <<acc, filter_on, last_op, grav_lock_, fbk_lock_, touched,
                 updateIMUFilter, variant>>
  /\ UNCHANGED <<concFixed, ctrlFixed>>
  /\ UNCHANGED extVars

\* the operation of thread t returns
Return(t) ==
  /\ in_op[t] # "idle"
  /\ pc[t] > Len(Script(in_op[t]))
  /\ in_op' = [in_op EXCEPT ![t] = "idle"]
  /\ UNCHANGED <<pc, acc, filter_on, last_op, grav_lock_, fbk_lock_, touched,
                 updateIMUFilter, variant>>
  /\ UNCHANGED <<concFixed, ctrlFixed>>
  /\ UNCHANGED extVars

\* std::lock_guard<std::mutex>: waits until the mutex is free, then holds it
LockStep(t) ==
  /\ InScript(t)
  /\ Instr(t).kind = "lock"
  /\ LockOf(Instr(t).var) = "free"
  /\ IF Instr(t).var = "grav_lock_"
       THEN grav_lock_' = t /\ UNCHANGED fbk_lock_
       ELSE fbk_lock_' = t /\ UNCHANGED grav_lock_
  /\ pc' = [pc EXCEPT ![t] = @ + 1]
  /\ UNCHANGED <<in_op, acc, filter_on, last_op, touched, updateIMUFilter, variant>>
  /\ UNCHANGED <<concFixed, ctrlFixed>>
  /\ UNCHANGED extVars

\* the end of the lock_guard's scope
UnlockStep(t) ==
  /\ InScript(t)
  /\ Instr(t).kind = "unlock"
  /\ IF Instr(t).var = "grav_lock_"
       THEN grav_lock_' = "free" /\ UNCHANGED fbk_lock_
       ELSE fbk_lock_' = "free" /\ UNCHANGED grav_lock_
  /\ pc' = [pc EXCEPT ![t] = @ + 1]
  /\ UNCHANGED <<in_op, acc, filter_on, last_op, touched, updateIMUFilter, variant>>
  /\ UNCHANGED <<concFixed, ctrlFixed>>
  /\ UNCHANGED extVars

\* a read or a write of a member begins
AccessBegin(t) ==
  /\ InScript(t)
  /\ acc[t] = NoAccess
  /\ \/ Instr(t).kind \in {"r", "w"}
     \/ Instr(t).kind = "w?" /\ filter_on
  /\ acc' = [acc EXCEPT ![t] =
               [var |-> Instr(t).var,
                kind |-> IF Instr(t).kind = "r" THEN "r" ELSE "w"]]
  /\ touched' = touched \cup
       {<<t, Instr(t).var, IF Instr(t).kind = "r" THEN "r" ELSE "w">>}
  /\ UNCHANGED <<in_op, pc, filter_on, last_op, grav_lock_, fbk_lock_,
                 updateIMUFilter, variant>>
  /\ UNCHANGED <<concFixed, ctrlFixed>>
  /\ UNCHANGED extVars

\* the access ends: a write of updateIMUFilter stores true, the handler's read
\* of it decides whether this callback updates the filter
AccessEnd(t) ==
  /\ InScript(t)
  /\ acc[t] # NoAccess
  /\ acc' = [acc EXCEPT ![t] = NoAccess]
  /\ pc' = [pc EXCEPT ![t] = @ + 1]
  /\ updateIMUFilter' =
       IF acc[t] = [var |-> "updateIMUFilter", kind |-> "w"]
         THEN TRUE ELSE updateIMUFilter
  /\ filter_on' =
       IF acc[t] = [var |-> "updateIMUFilter", kind |-> "r"]
         THEN updateIMUFilter ELSE filter_on
  /\ UNCHANGED <<in_op, last_op, grav_lock_, fbk_lock_, touched, variant>>
  /\ UNCHANGED <<concFixed, ctrlFixed>>
  /\ UNCHANGED extVars

\* if (updateIMUFilter) is false: the filter is not updated in this callback
SkipFilter(t) ==
  /\ InScript(t)
  /\ Instr(t).kind = "w?"
  /\ ~filter_on
  /\ pc' = [pc EXCEPT ![t] = @ + 1]
  /\ UNCHANGED <<in_op, acc, filter_on, last_op, grav_lock_, fbk_lock_, touched,
                 updateIMUFilter, variant>>
  /\ UNCHANGED <<concFixed, ctrlFixed>>
  /\ UNCHANGED extVars

NextConc ==
  \/ \E o \in {"planStandUpTraj", "execStandUpTraj", "spreadAllLegs", "pushAllLegs",
               "startBodyRUpdate", "planDynamicGait", "followDynamicGait"} :
       Ctl_Call(o)
  \/ Fbk_Deliver
  \/ \E t \in Threads : Return(t)
  \/ \E t \in Threads : LockStep(t)
  \/ \E t \in Threads : UnlockStep(t)
  \/ \E t \in Threads : AccessBegin(t)
  \/ \E t \in Threads : AccessEnd(t)
  \/ \E t \in Threads : SkipFilter(t)

\* the command and the trajectory vectors as Quadruped::Quadruped leaves them
Components == {"position", "velocity", "effort"}
\* the modules of the group, leg-major: module leg * num_joints_per_leg_ + joint
Entries == 0..(num_legs_ * num_joints_per_leg_ - 1)
\* a component that holds no value, a null pointer argument
NoValue == 0
Null == <<>>
NoFrame == [e \in Entries |-> [k \in Components |-> NoValue]]
InitQuadIdle ==
  /\ cmd_ = NoFrame
  /\ written = NoFrame
  /\ frame = NoFrame
  /\ startup_trajectories = <<>>
  /\ swing_trajectories = <<>>
  /\ stance_trajectories = <<>>
  /\ plan_no = 0
  /\ quad_op = [op |-> "Quadruped", mode |-> "none"]

\* computeFootForces has not been called
InitForceIdle ==
  /\ stance_dist = [i \in Legs |-> 1]
  /\ foot_forces = <<>>
  /\ forces_done = FALSE

\* translation_velocity_cmd.setZero(); rotation_velocity_cmd.setZero();
\* isFinished is declared without a value and is written before any read
InitInputs(e) ==
  /\ env = e
  /\ input_calls = <<>>
  /\ translation_velocity_cmd = 0
  /\ rotation_velocity_cmd = 0
  /\ isFinished \in Reached

InitInIdle == InitInputs("still")

\* the input was found: main() is past INIT STEP 2 and the loop runs
InitStartIdle ==
  /\ phase = "loop"
  /\ input_connected = TRUE
  /\ diagnostic = FALSE
  /\ exit_code = -1
  /\ resets = 0

InitPaceIdle == pace_now = 0 /\ pace_wait = 0

\* setCommand has not been called
NotCalled == <<>>
InitSetIdle ==
  /\ set_before = NotCalled
  /\ set_args = [index |-> 0, angles |-> <<>>, vels |-> <<>>, torques |-> <<>>]

\* create() returned an object; dynamicWalk.cpp has called setGains on it
InitCreateIdle ==
  /\ quadruped = "object"
  /\ init_calls = IF variant = "walk" THEN <<"setGains">> ELSE <<>>

InitRestIdle == InitForceIdle /\ InitInIdle /\ InitSetIdle /\ InitCreateIdle

InitExtIdle == InitPaceIdle /\ InitStartIdle /\ InitQuadIdle /\ InitRestIdle

Init == InitCtrl /\ InitFbkIdle /\ InitConcIdle /\ InitExtIdle
Next == NextCtrl
Spec == Init /\ [][Next]_vars

InitFbkSpec == InitCtrlIdle /\ InitFbk /\ InitConcIdle /\ InitExtIdle
SpecFbk == InitFbkSpec /\ [][NextFbk]_vars

\* both programs, after Quadruped::create: the control loop and the handler
InitConc ==
  /\ variant \in {"walk", "hexa"}
  /\ cur_ctrl_state = IF variant = "walk" THEN "QUAD_CTRL_STAND_UP1"
                                          ELSE "HEXA_CTRL_STAND_UP_PLAN"
  /\ clock = 0 /\ prev_time = 0 /\ dt = 0
  /\ state_enter_time = 0 /\ state_curr_time = 0 /\ state_run_time = 0
  /\ first_time_enter = FALSE /\ control_execute = TRUE
  /\ loop_status = "running" /\ app_exit = FALSE
  /\ tick_state = "none" /\ calls = <<>> /\ sends = 0 /\ plans_since_entry = 0
  /\ InitFbkIdle
  /\ InitConcIdle
  /\ InitExtIdle
SpecConc == InitConc /\ [][NextConc]_vars

(***************************************************************************)
(* The pacing of the loop (dynamicWalk.cpp 97-105, quadruped_control.cpp   *)
(* 87-95) with a clock finer than the millisecond the sleep is computed    *)
(* in.  clock, prev_time and dt are in clock units here.                   *)
(***************************************************************************)
\* std::chrono::milliseconds(interval_ms) as a steady_clock duration
interval_units == interval_ms * ClockUnitsPerMs
\* (int) duration_cast<milliseconds>(d).count(): whole ms, truncated toward zero
cast_ms(d) ==
  IF d >= 0 THEN d \div ClockUnitsPerMs ELSE -((-d) \div ClockUnitsPerMs)
\* need_to_wait = std::max(0, (int)duration_cast<milliseconds>(
\*                               prev_time + milliseconds(interval_ms) - now_time).count())
need_to_wait_ms(prev, now) == Max(0, cast_ms(prev + interval_units - now))

InitPace ==
  /\ variant \in {"walk", "hexa"}
  /\ cur_ctrl_state = IF variant = "walk" THEN "QUAD_CTRL_STAND_UP1"
                                          ELSE "HEXA_CTRL_STAND_UP_PLAN"
  /\ clock = 0 /\ prev_time = 0 /\ dt = 0
  /\ state_enter_time = 0 /\ state_curr_time = 0 /\ state_run_time = 0
  /\ first_time_enter = FALSE /\ control_execute = TRUE
  /\ loop_status = "running" /\ app_exit = FALSE
  /\ tick_state = "none" /\ calls = <<>> /\ sends = 0 /\ plans_since_entry = 0
  /\ InitFbkIdle
  /\ InitConcIdle
  /\ InitExtIdle

\* one iteration's pacing: b is the time since the last clock read (the rest
\* of the previous iteration), o the overrun of sleep_for
Pace_Tick(b, o) ==
  /\ loop_status = "running"
  /\ control_execute
  /\ clock < MaxPaceMs * ClockUnitsPerMs
  \* auto now_time = steady_clock::now()
  /\ pace_now' = clock + b
  /\ pace_wait' = need_to_wait_ms(prev_time, pace_now')
  \* sleep_for(milliseconds(need_to_wait)); now_time = steady_clock::now()
  /\ clock' = pace_now' + pace_wait' * ClockUnitsPerMs + o
  /\ dt' = clock' - prev_time
  /\ prev_time' = clock'
  /\ UNCHANGED <<variant, cur_ctrl_state, state_enter_time, state_curr_time,
                 state_run_time, first_time_enter, control_execute, loop_status,
                 app_exit, tick_state, calls, sends, plans_since_entry>>
  /\ UNCHANGED <<fbkVars, concVars, startVars, quadVars>>
  /\ UNCHANGED <<forceVars, inVars, setVars, createVars>>

NextPace ==
  \E b \in 0..(MaxBodyMs * ClockUnitsPerMs), o \in Jitter : Pace_Tick(b, o)

SpecPace == InitPace /\ [][NextPace]_vars

(***************************************************************************)
(* main() from INIT STEP 2 on: the input is looked for, then the loop runs *)
(***************************************************************************)
\* quadruped_control.cpp: bool is_quiet{}
is_quiet == FALSE

\* quadruped_control.cpp INIT STEP 2: if (!is_quiet && !input->isConnected())
\* { cout << "Could not find input joystick."; return 1; }; the retry loop runs
\* only when is_quiet
Hexa_InitInput ==
  /\ variant = "hexa"
  /\ phase = "init_input"
  /\ IF ~is_quiet /\ ~input_connected
       THEN /\ diagnostic' = TRUE
            /\ exit_code' = 1
            /\ phase' = "exited"
       ELSE /\ input_connected
            /\ phase' = "loop"
            /\ UNCHANGED <<diagnostic, exit_code>>
  /\ UNCHANGED <<input_connected, resets>>
  /\ UNCHANGED <<ctrlVars, fbkVars, concVars, paceVars, quadVars>>
  /\ UNCHANGED <<forceVars, inVars, setVars, createVars>>

\* dynamicWalk.cpp INIT STEP 2: while (!input->isConnected()) reset();
\* one turn of the loop; the device may or may not have appeared after it
Walk_InitInput_reset(found) ==
  /\ variant = "walk"
  /\ phase = "init_input"
  /\ ~input_connected
  /\ resets < MaxResets
  /\ resets' = resets + 1
  /\ input_connected' = found
  /\ UNCHANGED <<phase, diagnostic, exit_code>>
  /\ UNCHANGED <<ctrlVars, fbkVars, concVars, paceVars, quadVars>>
  /\ UNCHANGED <<forceVars, inVars, setVars, createVars>>

\* dynamicWalk.cpp: the while loop is left, "Found input joystick", the loop starts
Walk_InitInput_found ==
  /\ variant = "walk"
  /\ phase = "init_input"
  /\ input_connected
  /\ phase' = "loop"
  /\ UNCHANGED <<input_connected, diagnostic, exit_code, resets>>
  /\ UNCHANGED <<ctrlVars, fbkVars, concVars, paceVars, quadVars>>
  /\ UNCHANGED <<forceVars, inVars, setVars, createVars>>

InitStart ==
  /\ InitCtrl
  /\ InitFbkIdle
  /\ InitConcIdle
  /\ InitPaceIdle
  /\ InitQuadIdle
  /\ InitRestIdle
  /\ phase = "init_input"
  /\ input_connected \in BOOLEAN
  /\ diagnostic = FALSE
  /\ exit_code = -1
  /\ resets = 0

NextStart ==
  \/ Hexa_InitInput
  \/ \E found \in BOOLEAN : Walk_InitInput_reset(found)
  \/ Walk_InitInput_found
  \/ NextCtrl

SpecStart == InitStart /\ [][NextStart]_vars

(***************************************************************************)
(* The Quadruped object under any sequence of its operations: what cmd_    *)
(* holds, what is sent, and what the trajectory vectors hold.              *)
(***************************************************************************)
\* the value every operation but a direct setCommand call commands
Goal == 1
GoalVec == [i \in 1..num_joints_per_leg_ |-> Goal]

\* int leg_offset = i * num_joints_per_leg_
leg_offset(i) == i * num_joints_per_leg_
\* the modules of the legs in ls
EntriesOf(ls) ==
  {leg_offset(i) + j : i \in ls, j \in 0..(num_joints_per_leg_ - 1)}

\* cmd_[leg_offset + k].actuator().<component>().set(...) for the legs in ls:
\* the component holds a value from now on
SetIn(c, ls, comps) ==
  [e \in Entries |-> [k \in Components |->
     IF e \in EntriesOf(ls) /\ k \in comps THEN Goal ELSE c[e][k]]]

setCommand_leg_minor(c, index, angles, vels, torques) ==
  LET arg == [position |-> angles, velocity |-> vels, effort |-> torques]
  IN [e \in Entries |-> [k \in Components |->
        IF arg[k] # Null /\ e \in {index + num_legs_ * i :
                                      i \in 0..(num_joints_per_leg_ - 1)}
          THEN arg[k][(e - index) \div num_legs_ + 1]
          ELSE c[e][k]]]
\* Quadruped::setCommand(index, angles, vels, torques): for each argument that
\* is not null, cmd_[index * 3 + i].actuator().<component>().set((*arg)[i])
setCommand(c, index, angles, vels, torques) ==
  LET arg == [position |-> angles, velocity |-> vels, effort |-> torques]
  IN [e \in Entries |-> [k \in Components |->
        IF arg[k] # Null /\ e \in {leg_offset(index) + i :
                                      i \in 0..(num_joints_per_leg_ - 1)}
          THEN arg[k][e - leg_offset(index) + 1]
          ELSE c[e][k]]]

RECURSIVE SetAllLegs(_, _, _, _, _)
\* for (i < num_legs_) setCommand(i, &angles, &vels, &torques), from leg i on
SetAllLegs(c, i, angles, vels, torques) ==
  IF i >= num_legs_
    THEN c
    ELSE SetAllLegs(setCommand(c, i, angles, vels, torques), i + 1,
                    angles, vels, torques)

\* swing_vleg and stance_vleg for the two SwingModes
SwingModes == {"swing_mode_virtualLeg1", "swing_mode_virtualLeg2"}
swing_vleg_one_pair(mode) == <<1, 4>>
swing_vleg(mode) == IF mode = "swing_mode_virtualLeg1" THEN <<0, 5>> ELSE <<1, 4>>
stance_vleg(mode) == IF mode = "swing_mode_virtualLeg1" THEN <<1, 4>> ELSE <<0, 5>>

\* one trajectory::Trajectory::createUnconstrainedQp result, made for a leg by
\* the n-th planning call
Traj(leg, n) == [leg |-> leg, plan |-> n]

\* Quadruped::planStandUpTraj: for each leg startup_trajectories.push_back(...)
Quad_planStandUpTraj ==
  /\ plan_no < MaxPlans
  /\ plan_no' = plan_no + 1
  /\ startup_trajectories' =
       startup_trajectories \o [k \in 1..num_legs_ |-> Traj(k - 1, plan_no')]
  /\ UNCHANGED <<cmd_, written, frame, swing_trajectories, stance_trajectories>>
  /\ quad_op' = [op |-> "planStandUpTraj", mode |-> "none"]
  /\ UNCHANGED <<ctrlVars, fbkVars, concVars, paceVars, startVars>>
  /\ UNCHANGED <<forceVars, inVars, setVars, createVars>>

\* Quadruped::execStandUpTraj: per leg startup_trajectories[i]->getState and
\* setCommand(i, &angles, &vels, &torques), then sendCommand()
Quad_execStandUpTraj ==
  /\ Len(startup_trajectories) >= num_legs_
  /\ cmd_' = SetAllLegs(cmd_, 0, GoalVec, GoalVec, GoalVec)
  /\ written' = SetAllLegs(NoFrame, 0, GoalVec, GoalVec, GoalVec)
  /\ frame' = cmd_'
  /\ UNCHANGED <<startup_trajectories, swing_trajectories, stance_trajectories,
                 plan_no>>
  /\ quad_op' = [op |-> "execStandUpTraj", mode |-> "none"]
  /\ UNCHANGED <<ctrlVars, fbkVars, concVars, paceVars, startVars>>
  /\ UNCHANGED <<forceVars, inVars, setVars, createVars>>

\* Quadruped::spreadAllLegs: the three positions of every leg, then sendCommand()
\* (Quadruped::pushAllLegs() sets and sends the same components)
Quad_spreadAllLegs ==
  /\ cmd_' = SetIn(cmd_, Legs, {"position"})
  /\ written' = SetIn(NoFrame, Legs, {"position"})
  /\ frame' = cmd_'
  /\ UNCHANGED <<startup_trajectories, swing_trajectories, stance_trajectories,
                 plan_no>>
  /\ quad_op' = [op |-> "spreadAllLegs", mode |-> "none"]
  /\ UNCHANGED <<ctrlVars, fbkVars, concVars, paceVars, startVars>>
  /\ UNCHANGED <<forceVars, inVars, setVars, createVars>>

\* Quadruped::prepareQuadMode: position and effort for legs 0 1 4 5, position
\* for legs 2 3, then sendCommand()
Quad_prepareQuadMode ==
  /\ cmd_' = SetIn(SetIn(cmd_, {0, 1, 4, 5}, {"position", "effort"}),
                   {2, 3}, {"position"})
  /\ written' = SetIn(SetIn(NoFrame, {0, 1, 4, 5}, {"position", "effort"}),
                      {2, 3}, {"position"})
  /\ frame' = cmd_'
  /\ UNCHANGED <<startup_trajectories, swing_trajectories, stance_trajectories,
                 plan_no>>
  /\ quad_op' = [op |-> "prepareQuadMode", mode |-> "none"]
  /\ UNCHANGED <<ctrlVars, fbkVars, concVars, paceVars, startVars>>
  /\ UNCHANGED <<forceVars, inVars, setVars, createVars>>

\* Quadruped::prepareTrajectories: swing_trajectories.clear() and two
\* push_back, stance_trajectories.clear() and two push_back
Quad_prepareTrajectories(mode) ==
  /\ plan_no < MaxPlans
  /\ plan_no' = plan_no + 1
  /\ swing_trajectories' = [k \in 1..2 |-> Traj(swing_vleg(mode)[k], plan_no')]
  /\ stance_trajectories' = [k \in 1..2 |-> Traj(stance_vleg(mode)[k], plan_no')]
  /\ UNCHANGED <<cmd_, written, frame, startup_trajectories>>
  /\ quad_op' = [op |-> "prepareTrajectories", mode |-> mode]
  /\ UNCHANGED <<ctrlVars, fbkVars, concVars, paceVars, startVars>>
  /\ UNCHANGED <<forceVars, inVars, setVars, createVars>>

\* Quadruped::runTest: position for legs 2 3, position and effort for the
\* swing and the stance legs (swing_trajectories[i], stance_trajectories[i]),
\* then sendCommand()
Quad_runTest(mode) ==
  /\ Len(swing_trajectories) >= 2
  /\ Len(stance_trajectories) >= 2
  /\ LET moving == {swing_vleg(mode)[1], swing_vleg(mode)[2],
                    stance_vleg(mode)[1], stance_vleg(mode)[2]}
     IN /\ cmd_' = SetIn(SetIn(cmd_, {2, 3}, {"position"}),
                         moving, {"position", "effort"})
        /\ written' = SetIn(SetIn(NoFrame, {2, 3}, {"position"}),
                            moving, {"position", "effort"})
  /\ frame' = cmd_'
  /\ UNCHANGED <<startup_trajectories, swing_trajectories, stance_trajectories,
                 plan_no>>
  /\ quad_op' = [op |-> "runTest", mode |-> mode]
  /\ UNCHANGED <<ctrlVars, fbkVars, concVars, paceVars, startVars>>
  /\ UNCHANGED <<forceVars, inVars, setVars, createVars>>

NextQuad ==
  \/ Quad_planStandUpTraj
  \/ Quad_execStandUpTraj
  \/ Quad_spreadAllLegs
  \/ Quad_prepareQuadMode
  \/ \E mode \in SwingModes : Quad_prepareTrajectories(mode)
  \/ \E mode \in SwingModes : Quad_runTest(mode)

InitQuad ==
  /\ InitCtrlIdle
  /\ InitFbkIdle
  /\ InitConcIdle
  /\ InitPaceIdle
  /\ InitStartIdle
  /\ InitQuadIdle
  /\ InitRestIdle

SpecQuad == InitQuad /\ [][NextQuad]_vars

\* the switch of either loop, met with the sentinel of ctrl_state_type
InitDefault ==
  /\ variant \in {"walk", "hexa"}
  /\ cur_ctrl_state = "CTRL_STATES_COUNT"
  /\ clock = 0 /\ prev_time = 0 /\ dt = 0
  /\ state_enter_time = 0 /\ state_curr_time = 0 /\ state_run_time = 0
  /\ first_time_enter = FALSE /\ control_execute = TRUE
  /\ loop_status = "running" /\ app_exit = FALSE
  /\ tick_state = "none" /\ calls = <<>> /\ sends = 0 /\ plans_since_entry = 0
  /\ InitFbkIdle
  /\ InitConcIdle
  /\ InitExtIdle
SpecDefault == InitDefault /\ [][NextDefault]_vars

(***************************************************************************)
(* Properties of the control loops                                         *)
(***************************************************************************)
\* a step of the control loop that ran one iteration up to its state handler
Ticked == prev_time' # prev_time /\ loop_status' = "running"

PlanCount(cs) == Cardinality({i \in DOMAIN cs : cs[i].op = "planDynamicGait"})
FollowCount(cs) == Cardinality({i \in DOMAIN cs : cs[i].op = "followDynamicGait"})

\* C1: in the dynamic-walk program a StandUpPhase1 tick leaves the state
\* StandUpPhase1 while its time-in-state is below 1.9 s and makes it
\* StandUpPhase2 once it is 1.9 s or more; the entry time recorded then is a
\* clock value read on that tick, and a StandUpPhase2 tick makes the state
\* DynamicWalk exactly when the time since that entry is 1.9 s or more.
C1_Step ==
  (variant = "walk" /\ Ticked) =>
    /\ cur_ctrl_state = "QUAD_CTRL_STAND_UP1" =>
         /\ cur_ctrl_state' =
              IF state_curr_time' - state_enter_time >= startup_seconds_walk
                THEN "QUAD_CTRL_STAND_UP2" ELSE "QUAD_CTRL_STAND_UP1"
         /\ cur_ctrl_state' = "QUAD_CTRL_STAND_UP2" =>
              /\ state_enter_time' >= state_curr_time'
              /\ state_enter_time' <= clock'
    /\ cur_ctrl_state = "QUAD_CTRL_STAND_UP2" =>
         /\ state_enter_time >= startup_seconds_walk
         /\ cur_ctrl_state' =
              IF state_curr_time' - state_enter_time >= startup_seconds_walk
                THEN "QUAD_DYNAMIC_WALK" ELSE "QUAD_CTRL_STAND_UP2"
C1_StandUpPhases == [][C1_Step]_vars

\* C1 witness: StandUpPhase2 has just been left, on a tick whose time-in-state
\* was exactly 1.9 s after the Phase2 entry
C1_Witness ==
  /\ variant = "walk"
  /\ tick_state = "QUAD_CTRL_STAND_UP2"
  /\ cur_ctrl_state = "QUAD_DYNAMIC_WALK"
  /\ state_run_time = startup_seconds_walk

\* C2 as claimed: on the tick on which the state becomes DynamicWalk the walk
\* planner is invoked exactly once
C2_PlannedAtTransition ==
  (variant = "walk" /\ tick_state = "QUAD_CTRL_STAND_UP2"
     /\ cur_ctrl_state = "QUAD_DYNAMIC_WALK") => PlanCount(calls) = 1

\* C2 as amended: the tick on which the state becomes DynamicWalk does not
\* invoke the planner, it only marks the first entry; a DynamicWalk tick invokes
\* planDynamicGait (once) exactly when the first-entry mark is set and its
\* time-in-state is below getTotalTime(), which clears the mark; the mark is
\* set again only by a tick whose time-in-state has reached getTotalTime().
C2_Step ==
  (variant = "walk" /\ Ticked) =>
    /\ cur_ctrl_state = "QUAD_CTRL_STAND_UP2" =>
         /\ PlanCount(calls') = 0
         /\ cur_ctrl_state' = "QUAD_DYNAMIC_WALK" =>
              first_time_enter' /\ plans_since_entry' = 0
    /\ cur_ctrl_state = "QUAD_DYNAMIC_WALK" =>
         /\ PlanCount(calls') =
              IF first_time_enter /\ state_run_time' < getTotalTime THEN 1 ELSE 0
         /\ PlanCount(calls') = 1 => ~first_time_enter'
         /\ ~first_time_enter =>
              (first_time_enter' <=> state_run_time' >= getTotalTime)
C2_PlannedOnFirstWalkTick == [][C2_Step]_vars

\* C2 witness: the first DynamicWalk tick after the transition has planned
C2_Witness ==
  /\ variant = "walk"
  /\ tick_state = "QUAD_DYNAMIC_WALK"
  /\ PlanCount(calls) = 1
  /\ state_enter_time < 2 * startup_seconds_walk + interval_ms

\* C3: in DynamicWalk the planner runs at most once per reset of the entry
\* time, only in a tick of the control loop and before that tick's
\* followDynamicGait; every tick that follows the gait has exactly one plan
\* made since the entry time was last reset; a tick that resets the entry time
\* calls neither and leaves the replanning pending; no other state plans.
C3_Step ==
  (variant = "walk" /\ Ticked) =>
    /\ cur_ctrl_state # "QUAD_DYNAMIC_WALK" =>
         PlanCount(calls') = 0 /\ FollowCount(calls') = 0
    /\ cur_ctrl_state = "QUAD_DYNAMIC_WALK" =>
         /\ PlanCount(calls') <= 1
         /\ FollowCount(calls') = 1 => plans_since_entry' = 1
         /\ PlanCount(calls') = 1 =>
              /\ calls'[1].op = "planDynamicGait"
              /\ FollowCount(calls') = 1
              /\ plans_since_entry = 0
         /\ state_enter_time' # state_enter_time =>
              /\ calls' = <<>>
              /\ first_time_enter'
              /\ plans_since_entry' = 0
              /\ tick_state = "QUAD_DYNAMIC_WALK" => plans_since_entry = 1
         /\ state_enter_time' = state_enter_time => FollowCount(calls') = 1
C3_PlanOncePerEntry == [][C3_Step]_vars

\* C3 witness: a tick that replans after a cycle reset (not the first entry)
C3_Witness ==
  /\ variant = "walk"
  /\ tick_state = "QUAD_DYNAMIC_WALK"
  /\ PlanCount(calls) = 1
  /\ state_enter_time >= 2 * startup_seconds_walk + getTotalTime

\* C4: every sample time is inside the sampled trajectory's range
C4_SamplesInRange ==
  \A i \in DOMAIN calls :
    /\ calls[i].op = "followDynamicGait" =>
         0 <= calls[i].t /\ calls[i].t < getTotalTime
    /\ calls[i].op \in {"execStandUpTraj", "pushAllLegs"} =>
         0 <= calls[i].t /\ calls[i].t <= startup_seconds

\* C5: every iteration that reaches the switch hands exactly one frame to
\* sendCommand
C5_OneFramePerTick == tick_state # "none" => sends = 1

(***************************************************************************)
(* Properties of the feedback handler                                      *)
(***************************************************************************)
\* C6: a callback in which no leg has a usable orientation leaves the fused
\* gravity direction as the previous callback set it (here: to a direction)
C6_Step ==
  (fbk_count >= 1 /\ IsUnit(gravity_direction_)
     /\ fbk_count' = fbk_count + 1 /\ fbk'.valid = 0) =>
    gravity_direction_' = gravity_direction_
C6_AllNaNKeepsGravity == [][C6_Step]_vars

\* C7: after a callback in which at least one leg is valid and all valid legs
\* report the same down vector, the fused gravity direction is that vector, of
\* norm one, whichever legs are NaN in this callback or were in earlier ones
C7_FusedIsTrueDirection ==
  (fbk_count > 0 /\ fbk.valid >= 1 /\ Cardinality(fbk.downs) = 1) =>
    /\ IsUnit(gravity_direction_)
    /\ \A g \in fbk.downs : gravity_direction_ = Raw(g)

\* C7 witness: the second callback had some legs NaN, the others reported
\* Down2, and the fused direction is Down2
C7_Witness ==
  /\ fbk_count = 2
  /\ fbk.valid \in 1..(num_legs_ - 1)
  /\ fbk.downs = {Down2}
  /\ gravity_direction_ = Raw(Down2)

(***************************************************************************)
(* Properties of the two threads' accesses (SpecConc).                     *)
(***************************************************************************)
\* C8: every access to the fused gravity vector is made holding grav_lock_,
\* so no control-loop read of it overlaps the handler's write of it
C8_GravityUnderLock ==
  /\ \A t \in Threads : acc[t].var = "gravity_direction_" => grav_lock_ = t
  /\ ~(/\ acc["ctl"] = [var |-> "gravity_direction_", kind |-> "r"]
       /\ acc["fbk"] = [var |-> "gravity_direction_", kind |-> "w"])

\* C9: every control-loop read of the joint angles or of the filter's state is
\* made holding fbk_lock_, so it never overlaps the handler's write of them
C9_FeedbackStateUnderLock ==
  /\ acc["ctl"].var \in {"joint_angles", "imu_filter"} => fbk_lock_ = "ctl"
  /\ \A v \in {"joint_angles", "imu_filter"} :
       ~(/\ acc["ctl"] = [var |-> v, kind |-> "r"]
         /\ acc["fbk"] = [var |-> v, kind |-> "w"])

\* C10: the only members written by one thread and read (or written) by the
\* other are the gravity vector, the filter's state and the joint angles
SharedState == {"gravity_direction_", "imu_filter", "joint_angles"}
C10_SharedStateIsExactly ==
  \A t \in Threads : \A u \in Threads \ {t} : \A x \in touched :
    (x[1] = t /\ x[3] = "w" /\ \E y \in touched : y[1] = u /\ y[2] = x[2])
      => x[2] \in SharedState

\* C11: no step of the control loop has to wait for a mutex that the feedback
\* handler holds
C11_ControlNeverWaits ==
  ~(/\ InScript("ctl")
    /\ Instr("ctl").kind = "lock"
    /\ LockOf(Instr("ctl").var) = "fbk")

(***************************************************************************)
(* Properties of the control loops, continued                              *)
(***************************************************************************)
\* the iteration of this step read the quit button as pushed
QuitSeen ==
  \/ loop_status = "running" /\ loop_status' = "terminated"
  \/ ~app_exit /\ app_exit'

\* C12: the iteration that sees the quit button still runs its state handler,
\* and the loop is left only through its condition, between two iterations
C12_Step ==
  /\ QuitSeen => (tick_state' # "none" /\ loop_status' = "running")
  /\ loop_status' # loop_status => (loop_status' = "exited" /\ ~control_execute)
C12_QuitCompletesTick == [][C12_Step]_vars

FreezeCount(cs) == Cardinality({i \in DOMAIN cs : cs[i].op = "freeze"})

\* C13: an iteration that meets a state without a case issues one freeze
\* command, changes no state and does not end the program
C13_Step ==
  (cur_ctrl_state \notin Handled /\ tick_state' = "default"
     /\ prev_time' # prev_time) =>
    /\ FreezeCount(calls') = 1
    /\ sends' = 1
    /\ cur_ctrl_state' = cur_ctrl_state
    /\ loop_status' = "running"
C14_Step ==
  /\ cur_ctrl_state' # cur_ctrl_state =>
       (state_enter_time' = clock' /\ state_enter_time' >= prev_time')
  /\ state_curr_time' # state_curr_time =>
       state_run_time' = state_curr_time' - state_enter_time
C14_EntryTimeOnEveryTransition == [][C14_Step]_vars

(***************************************************************************)
(* Properties of the feedback handler, continued                           *)
(***************************************************************************)
\* C17: at every moment, before the first callback and after each one, the
\* fused gravity direction is a unit vector or the zero vector
C17_GravityUnitOrZero == IsUnit(gravity_direction_) \/ IsZero(gravity_direction_)

\* C18: after a callback every leg's joint-angle vector has one entry per
\* joint of the leg, and the entry of a joint is NaN exactly when the feedback
\* of that joint had no position
C18_JointAnglesMirrorFeedback ==
  fbk_count > 0 =>
    \A i \in Legs :
      /\ DOMAIN joint_angles[i] = JointsOfLeg
      /\ Cardinality(DOMAIN joint_angles[i]) = 3
      /\ \A j \in JointsOfLeg :
           isnan(joint_angles[i][j]) <=> (i * num_joints_per_leg_ + j) \in fbk.absent

\* C18 witness: a callback in which joint 1 of leg 1 had no position and the
\* other joints had one
C18_Witness ==
  /\ fbk_count > 0
  /\ fbk.absent = {4}
  /\ isnan(joint_angles[1][1])
  /\ ~isnan(joint_angles[1][0])
  /\ joint_angles[1][0] # D(0)

(***************************************************************************)
(* Properties of the pacing (SpecPace)                                     *)
(***************************************************************************)
\* the rest of the period, without the rounding to whole ms
need_to_wait_exact(prev, now) == Max(0, prev + interval_units - now)

\* C19: the sleep of an iteration is max(0, prev_time + period - now), never
\* negative and 0 once the period is used up; two iterations are never closer
\* than the period; dt is the measured time since the previous iteration
C19_Step ==
  prev_time' # prev_time =>
    /\ pace_wait' * ClockUnitsPerMs = need_to_wait_exact(prev_time, pace_now')
    /\ pace_wait' >= 0
    /\ (pace_now' - prev_time >= interval_units => pace_wait' = 0)
    /\ prev_time' - prev_time >= interval_units
    /\ dt' = prev_time' - prev_time
C19_SleepIsRemainderOfPeriod == [][C19_Step]_vars

(***************************************************************************)
(* Properties of the startup (SpecStart)                                   *)
(***************************************************************************)
\* C20: when the input is found not connected, the next thing the program does
\* is to print the diagnostic and exit with an error; the control loop starts
\* only if the input was connected at the first look
C20_Step ==
  /\ (phase = "init_input" /\ ~input_connected) =>
       (phase' = "exited" /\ diagnostic' /\ exit_code' > 0)
  /\ (phase # "loop" /\ phase' = "loop") => (input_connected /\ resets = 0)
C20_NoInputIsHardExit == [][C20_Step]_vars

(***************************************************************************)
(* Properties of the command frame and the trajectory vectors (SpecQuad)   *)
(***************************************************************************)
\* C15: the frame given to sendCommand holds exactly the components that the
\* operation sending it has set
C15_FrameBuiltFresh == frame = written

\* the plan that made the newest entry of a trajectory vector
LatestPlan(ts) == Max(ts[Len(ts)].plan, ts[1].plan)

\* C16: a trajectory vector that has been planned holds the trajectories of
\* its latest plan only: two for swing and for stance, one per leg for the
\* stand-up, entry i being the latest plan for leg i
C16_TrajectoriesReplacedWholesale ==
  /\ startup_trajectories # <<>> =>
       /\ Len(startup_trajectories) = num_legs_
       /\ \A i \in Legs :
            startup_trajectories[i + 1] = Traj(i, LatestPlan(startup_trajectories))
  /\ swing_trajectories # <<>> =>
       /\ Len(swing_trajectories) = 2
       /\ \A k \in 1..2 : swing_trajectories[k].plan = LatestPlan(swing_trajectories)
  /\ stance_trajectories # <<>> =>
       /\ Len(stance_trajectories) = 2
       /\ \A k \in 1..2 : stance_trajectories[k].plan = LatestPlan(stance_trajectories)

(***************************************************************************)
(* Quadruped::computeFootForces as a function of gravity_direction_ and of  *)
(* the legs' stance geometry.  Scalars are exact fractions [n, d].          *)
(***************************************************************************)
\* the fraction n / d (d # 0) in lowest terms with a positive denominator
Q(n, d) ==
  LET g == Gcd(Abs(n), Abs(d))
      s == IF d < 0 THEN -1 ELSE 1
  IN  [n |-> s * (n \div g), d |-> s * (d \div g)]
QAdd(a, b) == Q(a.n * b.d + b.n * a.d, a.d * b.d)
QMul(a, b) == Q(a.n * b.n, a.d * b.d)
QDiv(a, b) == Q(a.n * b.d, a.d * b.n)

RECURSIVE QSumFrom(_, _)
\* Eigen sum() of a vector of num_legs_ scalars, from entry i on
QSumFrom(f, i) ==
  IF i >= num_legs_ THEN Q(0, 1) ELSE QAdd(f[i], QSumFrom(f, i + 1))

\* Quadruped::weight_
weight_ == 21

sin_pi_half(b) == Q(1, 1)
\* std::sin(M_PI * blend_factors(i)) for the whole number blend_factors(i): 0 in
\* exact arithmetic; in double arithmetic 1.2e-16 for 1, which 1 + .33 * 1.2e-16
\* rounds away
sin_pi(b) == Q(0, 1)

\* (1 + .33 * std::sin(M_PI * blend_factors(i)))
blend_scale(b) == QAdd(Q(1, 1), QMul(Q(33, 100), sin_pi(b)))

\* Quadruped::computeFootForces(curr_time, foot_forces): gravity is the value of
\* gravity_direction_, dist[i] the first value of factors(i), the norm of
\* grav * grav.dot(stance) - stance
computeFootForces(gravity, dist) ==
  LET grav == [k \in 1..3 |-> -(gravity.v[k].v)]
      factors0 == [i \in Legs |-> Q(dist[i], 1)]
      fact_sum0 == QSumFrom(factors0, 0)
      factors1 == [i \in Legs |-> QDiv(fact_sum0, factors0[i])]
      blend_factors == [i \in Legs |-> 1]
      fact_sum1 == QSumFrom(factors1, 0)
      factors2 == [i \in Legs |-> QDiv(factors1[i], fact_sum1)]
      factors3 == [i \in Legs |->
                     QMul(factors2[i], blend_scale(blend_factors[i]))]
  IN  [i \in Legs |->
         [v |-> [k \in 1..3 |->
                   QMul(QMul(factors3[i], Q(weight_, 1)), Q(grav[k], 1))],
          den2 |-> gravity.den2]]

\* the values gravity_direction_ holds after a callback with a valid reading
\* (a unit vector) or with none (the zero vector)
GravityInputs == {Raw(Down1), Raw(Down2), ZeroValue}
\* the distances of the six stance points from the gravity axis
StanceDists == 1..MaxStanceDist

InitForces ==
  /\ InitCtrlIdle
  /\ gravity_direction_ \in GravityInputs
  /\ joint_angles = [i \in Legs |-> [j \in JointsOfLeg |-> NaN]]
  /\ updateIMUFilter = FALSE
  /\ imu_filter = [updates |-> 0, dt |-> 0]
  /\ latest_fbk_time = 0
  /\ prev_fbk_time = 0
  /\ fbk = NoFbk
  /\ fbk_count = 0
  /\ eigen_guards_zero = TRUE
  /\ InitConcIdle
  /\ InitPaceIdle /\ InitStartIdle /\ InitQuadIdle /\ InitInIdle /\ InitSetIdle
  /\ InitCreateIdle
  /\ stance_dist \in [Legs -> StanceDists]
  /\ foot_forces = <<>>
  /\ forces_done = FALSE

\* one call of computeFootForces
Forces_compute ==
  /\ ~forces_done
  /\ forces_done' = TRUE
  /\ foot_forces' = computeFootForces(gravity_direction_, stance_dist)
  /\ UNCHANGED stance_dist
  /\ UNCHANGED <<ctrlVars, fbkVars, concVars>>
  /\ UNCHANGED <<paceVars, startVars, quadVars, inVars, setVars, createVars>>

NextForces == Forces_compute
SpecForces == InitForces /\ [][NextForces]_vars

\* the component of leg i's force along the unit vector -gravity_direction_
ForceAlong(i) ==
  LET F == foot_forces[i]
      g == gravity_direction_.v
  IN  QMul(QSumFrom([k \in 0..5 |->
                       IF k < 3 THEN QMul(F.v[k + 1], Q(-(g[k + 1].v), 1))
                       ELSE Q(0, 1)], 0),
           Q(1, F.den2))
\* the cross product of leg i's force with -gravity_direction_ is zero, and the
\* force does not point against -gravity_direction_
ForceParallel(i) ==
  LET F == foot_forces[i].v
      g == [k \in 1..3 |-> Q(-(gravity_direction_.v[k].v), 1)]
      Minus(a, b) == QAdd(a, QMul(Q(-1, 1), b))
  IN  /\ Minus(QMul(F[2], g[3]), QMul(F[3], g[2])) = Q(0, 1)
      /\ Minus(QMul(F[3], g[1]), QMul(F[1], g[3])) = Q(0, 1)
      /\ Minus(QMul(F[1], g[2]), QMul(F[2], g[1])) = Q(0, 1)
      /\ ForceAlong(i).n >= 0

InitVaried ==
  /\ InitCtrl
  /\ InitFbkIdle
  /\ InitConcIdle
  /\ InitPaceIdle /\ InitStartIdle /\ InitQuadIdle /\ InitForceIdle /\ InitSetIdle
  /\ InitCreateIdle
  /\ InitInputs("varied")

\* no overrun of a sleep, no time between two clock reads
OnTime == {0}

NextInputs ==
  \/ \E o \in OnTime : Walk_Quit(o)
  \/ \E o \in OnTime, l \in OnTime : Walk_STAND_UP1(o, l)
  \/ \E o \in OnTime, l \in OnTime : Walk_STAND_UP2(o, l)
  \/ \E o \in OnTime, l \in OnTime : Walk_DYNAMIC_WALK(o, l)
  \/ \E o \in OnTime, l \in OnTime, quit \in BOOLEAN : Hexa_STAND_UP_PLAN(o, l, quit)
  \/ \E o \in OnTime, l \in OnTime, quit \in BOOLEAN : Hexa_STAND_UP(o, l, quit)
  \/ \E o \in OnTime, quit \in BOOLEAN : Hexa_NORMAL(o, quit)
  \/ Hexa_MainStore
  \/ Hexa_LoopExit

SpecInputs == InitVaried /\ [][NextInputs]_vars

(***************************************************************************)
(* Properties of the control loops: the input device                       *)
(***************************************************************************)
\* the places of the call named c in the calls of one iteration
PlacesOf(cs, c) == {i \in DOMAIN cs : cs[i] = c}

\* C22: every iteration of the control loop calls the input device's update()
\* exactly once, before every read of the quit button and of the two velocity
\* commands made in that iteration
C22_Step ==
  prev_time' # prev_time =>
    /\ Cardinality(PlacesOf(input_calls', "update")) = 1
    /\ \A i \in DOMAIN input_calls' :
         input_calls'[i] # "update" =>
           \E u \in PlacesOf(input_calls', "update") : u < i
C22_UpdateOnceBeforeReads == [][C22_Step]_vars

\* an iteration of DynamicWalk has updated the device and made all three reads
C22_Witness ==
  /\ tick_state = "QUAD_DYNAMIC_WALK"
  /\ input_calls = <<"update", "getQuitButtonPushed",
                     "getTranslationVelocityCmd", "getRotationVelocityCmd">>

\* the state the switch leaves for the next iteration, from the state and the
\* time in state alone
NextGaitState(s, run_time) ==
  CASE s = "QUAD_CTRL_STAND_UP1" ->
         IF run_time >= startup_seconds_walk THEN "QUAD_CTRL_STAND_UP2" ELSE s
    [] s = "QUAD_CTRL_STAND_UP2" ->
         IF run_time >= startup_seconds_walk THEN "QUAD_DYNAMIC_WALK" ELSE s
    [] s = "HEXA_CTRL_STAND_UP_PLAN" -> "HEXA_CTRL_STAND_UP"
    [] s = "HEXA_CTRL_STAND_UP" ->
         IF run_time >= startup_seconds_hexa THEN "QUAD_CTRL_NORMAL" ELSE s
    [] OTHER -> s

\* C23: whatever velocity commands the joystick delivers and whatever the
\* feedback makes of the reached-the-goal test, the state after an iteration
\* is a function of the state before it and of the time in state it measured
C23_Step ==
  /\ Ticked =>
       cur_ctrl_state' =
         NextGaitState(cur_ctrl_state,
                       IF cur_ctrl_state = "HEXA_CTRL_STAND_UP_PLAN"
                         THEN 0 ELSE state_run_time')
  /\ ~Ticked => cur_ctrl_state' = cur_ctrl_state
C23_StateIgnoresInputs == [][C23_Step]_vars

\* StandUpPhase1 was left on an iteration in which the joystick commanded a
\* velocity and the legs had not reached their goal
C23_Witness ==
  /\ tick_state = "QUAD_CTRL_STAND_UP1"
  /\ cur_ctrl_state = "QUAD_CTRL_STAND_UP2"
  /\ translation_velocity_cmd = 1
  /\ rotation_velocity_cmd = 1
  /\ ~isFinished

(***************************************************************************)
(* Quadruped::setCommand as a function of cmd_ and of its arguments        *)
(***************************************************************************)
\* what cmd_ holds when setCommand is called: nothing, the positions of
\* spreadAllLegs, the components of prepareQuadMode, those of execStandUpTraj
SetFrames ==
  {NoFrame,
   SetIn(NoFrame, Legs, {"position"}),
   SetIn(SetIn(NoFrame, {0, 1, 4, 5}, {"position", "effort"}), {2, 3}, {"position"}),
   SetAllLegs(NoFrame, 0, GoalVec, GoalVec, GoalVec)}
\* the three vectors a caller can pass, each of num_joints_per_leg_ values
AnglesArg == <<11, 12, 13>>
VelsArg == <<21, 22, 23>>
TorquesArg == <<31, 32, 33>>
SetArgs ==
  [index : Legs, angles : {Null, AnglesArg}, vels : {Null, VelsArg},
   torques : {Null, TorquesArg}]

InitSet ==
  /\ InitCtrlIdle
  /\ InitFbkIdle
  /\ InitConcIdle
  /\ InitPaceIdle /\ InitStartIdle /\ InitForceIdle /\ InitInIdle
  /\ InitCreateIdle
  /\ cmd_ \in SetFrames
  /\ written = NoFrame
  /\ frame = NoFrame
  /\ startup_trajectories = <<>>
  /\ swing_trajectories = <<>>
  /\ stance_trajectories = <<>>
  /\ plan_no = 0
  /\ quad_op = [op |-> "Quadruped", mode |-> "none"]
  /\ set_before = NotCalled
  /\ set_args \in SetArgs

\* one call setCommand(index, angles, vels, torques)
Set_setCommand ==
  /\ set_before = NotCalled
  /\ set_before' = cmd_
  /\ cmd_' = setCommand(cmd_, set_args.index, set_args.angles, set_args.vels,
                        set_args.torques)
  /\ quad_op' = [op |-> "setCommand", mode |-> "none"]
  /\ UNCHANGED <<written, frame, startup_trajectories, swing_trajectories,
                 stance_trajectories, plan_no, set_args>>
  /\ UNCHANGED <<ctrlVars, fbkVars, concVars, paceVars, startVars>>
  /\ UNCHANGED <<forceVars, inVars, createVars>>

NextSet == Set_setCommand
SpecSet == InitSet /\ [][NextSet]_vars

\* the entries a call for leg index changes when every argument is given
WrittenBy(index) ==
  {e \in Entries :
     setCommand(NoFrame, index, AnglesArg, VelsArg, TorquesArg)[e] # NoFrame[e]}

\* C24: setCommand(index, angles, vels, torques) gives the entries 3 * index,
\* 3 * index + 1, 3 * index + 2 the values of joint 0, 1, 2 of every argument
\* that is not null and leaves every other entry and component as it was; the
\* entries written for the legs 0..5 are pairwise disjoint and are all of 0..17
C24_SetCommandWritesOwnEntries ==
  /\ set_before # NotCalled =>
       LET arg == [position |-> set_args.angles, velocity |-> set_args.vels,
                   effort |-> set_args.torques]
           first == 3 * set_args.index
       IN  \A e \in 0..17 : \A k \in Components :
             cmd_[e][k] = IF e \in first..(first + 2) /\ arg[k] # Null
                            THEN arg[k][e - first + 1]
                            ELSE set_before[e][k]
  /\ \A i \in 0..5 : WrittenBy(i) = {3 * i, 3 * i + 1, 3 * i + 2}
  /\ \A i \in 0..5 : \A j \in 0..5 : i # j => WrittenBy(i) \cap WrittenBy(j) = {}
  /\ UNION {WrittenBy(i) : i \in 0..5} = 0..17

\* a call for leg 4 with angles only, on a frame that held positions and
\* efforts: the three positions are the new ones, the efforts are the old ones
C24_Witness ==
  /\ set_before # NotCalled
  /\ set_args = [index |-> 4, angles |-> AnglesArg, vels |-> Null, torques |-> Null]
  /\ set_before[13]["effort"] = Goal
  /\ cmd_[13] = [position |-> 12, velocity |-> NoValue, effort |-> Goal]
  /\ cmd_[11] = set_before[11]

(***************************************************************************)
(* Properties of the Quadruped object: the commands of one gait tick       *)
(***************************************************************************)
\* the legs named in a pair of leg ids
PairOf(vleg) == {vleg[1], vleg[2]}
\* the components an operation has set for every module of the legs in ls
SetFor(ls, comps) ==
  \A e \in EntriesOf(ls) : \A k \in Components :
    (written[e][k] # NoValue) <=> (k \in comps)

\* C25: for either swing mode the swing legs and the stance legs of
\* prepareTrajectories and of runTest are the two diagonal pairs {0,5} and
\* {1,4}; runTest commands a position and a torque for each of these four legs
\* and a position only, the held pose, for the legs 2 and 3
C25_Step ==
  LET mode == quad_op'.mode
      swing == PairOf(swing_vleg(mode))
      stance == PairOf(stance_vleg(mode))
  IN  /\ quad_op'.op \in {"prepareTrajectories", "runTest"} =>
           /\ {swing, stance} = {{0, 5}, {1, 4}}
           /\ swing \cap stance = {}
           /\ swing \cup stance = {0, 1, 4, 5}
      /\ quad_op'.op = "prepareTrajectories" =>
           /\ {swing_trajectories'[k].leg : k \in 1..2} = swing
           /\ {stance_trajectories'[k].leg : k \in 1..2} = stance
      /\ quad_op'.op = "runTest" =>
           /\ written' = SetIn(SetIn(NoFrame, {2, 3}, {"position"}),
                               swing \cup stance, {"position", "effort"})
           /\ frame' = cmd_'
           /\ \A e \in EntriesOf({0, 1, 2, 3, 4, 5}) :
                \A k \in Components :
                  written'[e][k] # NoValue => frame'[e][k] = written'[e][k]
CallCount(cs, name) == Cardinality({i \in DOMAIN cs : cs[i].op = name})

\* C26: the hexapod program starts in StandUpPlan; its first iteration calls
\* planStandUpTraj once and makes the state StandUp, and no other iteration
\* calls it; execStandUpTraj is called only by iterations that start in
\* StandUp, which is entered only by the planning iteration; StandUp becomes
\* NormalRun on the first iteration whose time in state is 4.5 s or more, and
\* from NormalRun on the state does not change and execStandUpTraj is not called
C26_Step ==
  variant = "hexa" =>
    /\ cur_ctrl_state' = "HEXA_CTRL_STAND_UP_PLAN" =>
         cur_ctrl_state = "HEXA_CTRL_STAND_UP_PLAN"
    /\ cur_ctrl_state' = "HEXA_CTRL_STAND_UP" =>
         cur_ctrl_state \in {"HEXA_CTRL_STAND_UP_PLAN", "HEXA_CTRL_STAND_UP"}
    /\ cur_ctrl_state = "QUAD_CTRL_NORMAL" => cur_ctrl_state' = "QUAD_CTRL_NORMAL"
    /\ Ticked =>
         /\ CallCount(calls', "planStandUpTraj") =
              IF cur_ctrl_state = "HEXA_CTRL_STAND_UP_PLAN" THEN 1 ELSE 0
         /\ cur_ctrl_state = "HEXA_CTRL_STAND_UP_PLAN" =>
              cur_ctrl_state' = "HEXA_CTRL_STAND_UP"
         /\ CallCount(calls', "execStandUpTraj") > 0 =>
              cur_ctrl_state = "HEXA_CTRL_STAND_UP"
         /\ cur_ctrl_state = "HEXA_CTRL_STAND_UP" =>
              cur_ctrl_state' =
                IF state_run_time' >= startup_seconds_hexa
                  THEN "QUAD_CTRL_NORMAL" ELSE "HEXA_CTRL_STAND_UP"
C26_HexaPlansOnceThenStands ==
  /\ variant = "hexa" => cur_ctrl_state = "HEXA_CTRL_STAND_UP_PLAN"
  /\ [][C26_Step]_vars

\* an iteration of NormalRun after the stand-up has run its 4.5 s
C26_Witness ==
  /\ variant = "hexa"
  /\ cur_ctrl_state = "QUAD_CTRL_NORMAL"
  /\ tick_state = "QUAD_CTRL_NORMAL"
  /\ state_run_time >= startup_seconds_hexa
  /\ CallCount(calls, "execStandUpTraj") = 0

(***************************************************************************)
(* Properties of the feedback handler: its timestamps                      *)
(***************************************************************************)
\* C27: every callback, with the filter enabled or not, stores its own
\* timestamp as the previous-feedback time; the timestamp never decreases; and
\* a callback that updates the filter hands it the time since the previous
\* callback.  Nothing but a callback changes the two timestamps.
C27_Step ==
  /\ fbk_count' = fbk_count + 1 =>
       /\ prev_fbk_time' = latest_fbk_time'
       /\ latest_fbk_time' >= latest_fbk_time
       /\ (updateIMUFilter /\ fbk_count >= 1) =>
            /\ imu_filter'.updates = imu_filter.updates + 1
            /\ imu_filter'.dt = latest_fbk_time' - latest_fbk_time
  /\ fbk_count' = fbk_count =>
       /\ prev_fbk_time' = prev_fbk_time
       /\ latest_fbk_time' = latest_fbk_time
C27_FilterDtIsCallbackSpacing == [][C27_Step]_vars

\* a callback without the filter, startBodyRUpdate, then a callback 2 ms later
\* that updated the filter with dt = 2 ms
C27_Witness ==
  /\ fbk_count = 2
  /\ imu_filter = [updates |-> 1, dt |-> 2]
  /\ latest_fbk_time = 3
  /\ prev_fbk_time = 3

\* the place of a state of the dynamic-walk program in its order
WalkRank(s) ==
  CASE s = "QUAD_CTRL_STAND_UP1" -> 1
    [] s = "QUAD_CTRL_STAND_UP2" -> 2
    [] s = "QUAD_DYNAMIC_WALK" -> 3
    [] OTHER -> 0

\* C28: the dynamic-walk program starts in StandUpPhase1 and every step leaves
\* the state where it is or moves it to the next one of StandUpPhase1,
\* StandUpPhase2, DynamicWalk; from DynamicWalk the state never changes
C28_Step ==
  variant = "walk" =>
    /\ WalkRank(cur_ctrl_state) \in 1..3
    /\ WalkRank(cur_ctrl_state') \in
         {WalkRank(cur_ctrl_state), WalkRank(cur_ctrl_state) + 1}
    /\ cur_ctrl_state = "QUAD_DYNAMIC_WALK" => cur_ctrl_state' = "QUAD_DYNAMIC_WALK"
C28_WalkStatesForwardOnly ==
  /\ variant = "walk" => cur_ctrl_state = "QUAD_CTRL_STAND_UP1"
  /\ [][C28_Step]_vars

\* DynamicWalk after a gait cycle has ended and its entry time was reset
C28_Witness ==
  /\ variant = "walk"
  /\ cur_ctrl_state = "QUAD_DYNAMIC_WALK"
  /\ tick_state = "QUAD_DYNAMIC_WALK"
  /\ first_time_enter
  /\ state_enter_time >= 2 * startup_seconds_walk + getTotalTime

(***************************************************************************)
(* DynamicWalk without an end: the QUAD_DYNAMIC_WALK case of dynamicWalk.cpp*)
(* with every clock value counted from the entry time (the case uses       *)
(* differences of clock values only), so that the loop can run forever.    *)
(***************************************************************************)
\* the iteration of QUAD_CTRL_STAND_UP2 that made the state QUAD_DYNAMIC_WALK
\* has just ended, l ms after the top of that iteration
InitGait ==
  /\ variant = "walk"
  /\ cur_ctrl_state = "QUAD_DYNAMIC_WALK"
  /\ clock = 0
  /\ prev_time \in {-l : l \in Jitter}
  /\ dt = interval_ms
  /\ state_enter_time = 0
  /\ state_curr_time = prev_time
  /\ state_run_time \in {startup_seconds_walk + o : o \in Jitter}
  /\ first_time_enter = TRUE
  /\ control_execute = TRUE
  /\ loop_status = "running"
  /\ app_exit = FALSE
  /\ tick_state = "QUAD_CTRL_STAND_UP2"
  /\ calls = <<Call("pushAllLegs", state_run_time)>>
  /\ sends = pushAllLegs_sends
  /\ plans_since_entry = 0
  /\ gravity_direction_ = ZeroValue
  /\ joint_angles = [i \in Legs |-> [j \in JointsOfLeg |-> NaN]]
  /\ updateIMUFilter = TRUE
  /\ imu_filter = [updates |-> 0, dt |-> 0]
  /\ latest_fbk_time = 0
  /\ prev_fbk_time = 0
  /\ fbk = NoFbk
  /\ fbk_count = 0
  /\ eigen_guards_zero = TRUE
  /\ InitConcIdle
  /\ InitPaceIdle /\ InitStartIdle /\ InitQuadIdle /\ InitForceIdle /\ InitSetIdle
  /\ InitCreateIdle
  /\ env = "varied"
  /\ input_calls = InputHead \o InputCmds
  /\ translation_velocity_cmd \in VelCmds
  /\ rotation_velocity_cmd \in VelCmds
  /\ isFinished \in Reached

\* case QUAD_DYNAMIC_WALK, the clock counted from state_enter_time: when the
\* entry time is reset, every clock value kept is counted from the new one
Gait_DYNAMIC_WALK(o, l) ==
  /\ variant = "walk"
  /\ cur_ctrl_state = "QUAD_DYNAMIC_WALK"
  /\ phase = "loop"
  /\ loop_status = "running"
  /\ control_execute
  /\ LET now == NowTime(o)
         run == now - state_enter_time
         entry == IF CycleOver(run) THEN now + l ELSE state_enter_time
     IN  /\ dt' = now - prev_time
         /\ prev_time' = now - entry
         /\ state_curr_time' = now - entry
         /\ state_run_time' = run
         /\ state_enter_time' = 0
         /\ clock' = now + l - entry
         /\ IF CycleOver(run)
              THEN /\ first_time_enter' = WalkReset_flag
                   /\ plans_since_entry' = 0
                   /\ calls' = <<>>
                   /\ sends' = 0
              ELSE IF first_time_enter
                THEN /\ calls' = <<Call("planDynamicGait", NoTime),
                                   Call("followDynamicGait", run)>>
                     /\ sends' = planDynamicGait_sends + followDynamicGait_sends
                     /\ plans_since_entry' = plans_since_entry + 1
                     /\ first_time_enter' = WalkPlan_flag
                ELSE /\ calls' = <<Call("followDynamicGait", run)>>
                     /\ sends' = followDynamicGait_sends
                     /\ UNCHANGED <<plans_since_entry, first_time_enter>>
  /\ tick_state' = "QUAD_DYNAMIC_WALK"
  /\ UNCHANGED <<variant, cur_ctrl_state, control_execute, loop_status, app_exit>>
  /\ UNCHANGED fbkVars
  /\ UNCHANGED concVars
  /\ Input_read
  /\ UNCHANGED isFinished
  /\ UNCHANGED noInVars

NextGait == \E o \in Jitter, l \in Jitter : Gait_DYNAMIC_WALK(o, l)
\* while (true) with a bounded sleep: the next iteration always comes
SpecGait == InitGait /\ [][NextGait]_vars /\ WF_vars(NextGait)

Waiting(t) ==
  InScript(t) /\ Instr(t).kind = "lock" /\ LockOf(Instr(t).var) # "free"

\* C30: no thread waits for a mutex whose holder is itself waiting (so no set
\* of threads waits for each other); the feedback thread holds grav_lock_ only
\* while it holds fbk_lock_; no thread is about to take fbk_lock_ while it
\* holds grav_lock_; a thread that is in no operation, or at the end of one,
\* holds no mutex
C30_LocksNestedAndReleased ==
  /\ \A t \in Threads :
       Waiting(t) =>
         /\ LockOf(Instr(t).var) \in Threads
         /\ ~Waiting(LockOf(Instr(t).var))
  /\ grav_lock_ = "fbk" => fbk_lock_ = "fbk"
  /\ \A t \in Threads :
       (InScript(t) /\ Instr(t) = Lock("fbk_lock_")) => grav_lock_ # t
  /\ \A t \in Threads :
       (in_op[t] = "idle" \/ ~InScript(t)) => (grav_lock_ # t /\ fbk_lock_ # t)

\* the control loop waits at getGravityDirection for grav_lock_, which the
\* feedback handler holds inside fbk_lock_
C30_Witness ==
  /\ Waiting("ctl")
  /\ Instr("ctl") = Lock("grav_lock_")
  /\ grav_lock_ = "fbk"
  /\ fbk_lock_ = "fbk"

(***************************************************************************)
(* quadruped_control.cpp: the quit button, app.exec() and the join.  The   *)
(* loop is taken near the end of the stand-up and runs for ever in         *)
(* QUAD_CTRL_NORMAL unless the flag is cleared.                            *)
(***************************************************************************)
\* app.exit(): the return code is the default argument of QCoreApplication::exit
app_exit_code == 0
\* bool res = app.exec(): the conversion of the return code to bool
BoolOfInt(n) == n # 0
\* return res: the conversion of the bool to main's int
IntOfBool(b) == IF b THEN 1 ELSE 0

\* main: control_thread.join() returns once the thread has ended; return res
Hexa_MainJoin ==
  /\ variant = "hexa"
  /\ phase = "loop"
  /\ ~control_execute
  /\ loop_status = "exited"
  /\ exit_code' = IntOfBool(BoolOfInt(app_exit_code))
  /\ phase' = "exited"
  /\ UNCHANGED <<input_connected, diagnostic, resets>>
  /\ UNCHANGED <<ctrlVars, fbkVars, concVars, paceVars, quadVars>>
  /\ UNCHANGED <<forceVars, inVars, setVars, createVars>>

\* case QUAD_CTRL_NORMAL with the clock counted from the iteration's own
\* now_time: the state reads no time but prev_time
Quit_NORMAL(o, quit) ==
  /\ variant = "hexa"
  /\ cur_ctrl_state = "QUAD_CTRL_NORMAL"
  /\ phase = "loop"
  /\ loop_status = "running"
  /\ control_execute
  /\ dt' = NowTime(o) - prev_time
  /\ prev_time' = 0
  /\ clock' = 0
  /\ app_exit' = (app_exit \/ quit)
  /\ calls' = <<>>
  /\ sends' = 0
  /\ tick_state' = "QUAD_CTRL_NORMAL"
  /\ UNCHANGED <<variant, cur_ctrl_state, state_enter_time, state_curr_time,
                 state_run_time, first_time_enter, control_execute, loop_status,
                 plans_since_entry>>
  /\ UNCHANGED fbkVars
  /\ UNCHANGED concVars
  /\ Input_read
  /\ UNCHANGED isFinished
  /\ UNCHANGED noInVars

\* the hexapod loop MaxNormalMs before the stand-up ends, after iterations
\* that were all on time
InitQuit ==
  /\ variant = "hexa"
  /\ cur_ctrl_state = "HEXA_CTRL_STAND_UP"
  /\ clock = startup_seconds_hexa - MaxNormalMs
  /\ prev_time = clock
  /\ dt = interval_ms
  /\ state_enter_time = interval_ms
  /\ state_curr_time = clock
  /\ state_run_time = clock - state_enter_time
  /\ first_time_enter = FALSE
  /\ control_execute = TRUE
  /\ loop_status = "running"
  /\ app_exit = FALSE
  /\ tick_state = "HEXA_CTRL_STAND_UP"
  /\ calls = <<Call("execStandUpTraj", state_run_time)>>
  /\ sends = execStandUpTraj_sends
  /\ plans_since_entry = 0
  /\ InitFbkIdle
  /\ InitConcIdle
  /\ InitExtIdle

\* the steps of the control thread
QuitThread ==
  \/ \E o \in Jitter, l \in Jitter, quit \in BOOLEAN : Hexa_STAND_UP(o, l, quit)
  \/ \E o \in Jitter, quit \in BOOLEAN : Quit_NORMAL(o, quit)
  \/ Hexa_LoopExit

\* the steps of main after the thread was started
QuitMain ==
  \/ Hexa_MainStore
  \/ Hexa_MainJoin

NextQuit == QuitThread \/ QuitMain

\* both threads are scheduled again and again: the loop sleeps at most
\* interval_ms, and main is either in app.exec() or at one of its last lines
SpecQuit ==
  InitQuit /\ [][NextQuit]_vars /\ WF_vars(QuitThread) /\ WF_vars(QuitMain)

\* C31: in the hexapod program, once the quit button was reported (app.exit()
\* was called), the control thread leaves its loop, join() returns and main
\* returns; after the thread has read the flag as false no iteration starts
C31_QuitEndsLoopAndMain ==
  /\ app_exit ~> (loop_status = "exited" /\ phase = "exited" /\ exit_code = 0)
  /\ [][loop_status = "exited" =>
          (loop_status' = "exited" /\ UNCHANGED <<tick_state, dt, clock, prev_time,
                                                   calls, sends, input_calls,
                                                   cur_ctrl_state, app_exit>>)]_vars

\* main has returned after a quit reported in QUAD_CTRL_NORMAL
C31_Witness ==
  /\ variant = "hexa"
  /\ app_exit
  /\ ~control_execute
  /\ loop_status = "exited"
  /\ phase = "exited"
  /\ exit_code = 0
  /\ tick_state = "QUAD_CTRL_NORMAL"

(***************************************************************************)
(* main() INIT STEP 3 and what follows it: Quadruped::create, and the      *)
(* calls made through the pointer it returned                              *)
(***************************************************************************)
\* Quadruped::create: if (!group) return nullptr; else a new Quadruped
create(group_found) == IF group_found THEN "object" ELSE "null"

\* a member call through a null unique_ptr is undefined: the process is killed
\* at the call, or the member's code runs
NullCall == {"crash", "runs"}

\* std::unique_ptr<Quadruped> quadruped = Quadruped::create(params);
\* neither program tests the pointer
Main_create(group_found) ==
  /\ phase = "create"
  /\ quadruped' = create(group_found)
  /\ phase' = IF variant = "walk" THEN "gains" ELSE "loop"
  /\ UNCHANGED <<init_calls, input_connected, diagnostic, exit_code, resets>>
  /\ UNCHANGED <<ctrlVars, fbkVars, concVars, paceVars, quadVars>>
  /\ UNCHANGED <<forceVars, inVars, setVars>>

\* dynamicWalk.cpp: quadruped -> setGains();
Walk_setGains(outcome) ==
  /\ variant = "walk"
  /\ phase = "gains"
  /\ init_calls' = Append(init_calls, "setGains")
  /\ IF quadruped = "null" /\ outcome = "crash"
       THEN /\ phase' = "exited"
            /\ loop_status' = "crashed"
       ELSE /\ phase' = "loop"
            /\ UNCHANGED loop_status
  /\ UNCHANGED <<variant, cur_ctrl_state, clock, prev_time, dt, state_enter_time,
                 state_curr_time, state_run_time, first_time_enter, control_execute,
                 app_exit, tick_state, calls, sends, plans_since_entry>>
  /\ UNCHANGED <<quadruped, input_connected, diagnostic, exit_code, resets>>
  /\ UNCHANGED <<fbkVars, concVars, paceVars, quadVars>>
  /\ UNCHANGED <<forceVars, inVars, setVars>>

\* the first call through quadruped in the case of each state
FirstCall(state) ==
  CASE state = "QUAD_CTRL_STAND_UP1" -> "spreadAllLegs"
    [] state = "QUAD_CTRL_STAND_UP2" -> "pushAllLegs"
    [] state = "QUAD_DYNAMIC_WALK" -> "getTotalTime"
    [] state = "HEXA_CTRL_STAND_UP_PLAN" -> "planStandUpTraj"
    [] state = "HEXA_CTRL_STAND_UP" -> "execStandUpTraj"

\* one iteration with a null quadruped that ends at the first call through it:
\* the head of the loop and the input are done, the process is killed at the call
NullTick(o, quit) ==
  /\ quadruped = "null"
  /\ cur_ctrl_state # "QUAD_CTRL_NORMAL"
  /\ cur_ctrl_state \in Handled
  /\ TickHead(o)
  /\ app_exit' = (app_exit \/ (variant = "hexa" /\ quit))
  /\ IF cur_ctrl_state = "HEXA_CTRL_STAND_UP_PLAN"
       THEN UNCHANGED <<state_curr_time, state_run_time>>
       ELSE /\ state_curr_time' = NowTime(o)
            /\ state_run_time' = state_curr_time' - state_enter_time
  /\ calls' = <<Call(FirstCall(cur_ctrl_state), NoTime)>>
  /\ sends' = 0
  /\ clock' = NowTime(o)
  /\ tick_state' = cur_ctrl_state
  /\ loop_status' = "crashed"
  /\ UNCHANGED <<variant, cur_ctrl_state, state_enter_time, first_time_enter,
                 control_execute, plans_since_entry>>
  /\ UNCHANGED fbkVars
  /\ UNCHANGED concVars
  /\ Input_read
  /\ UNCHANGED isFinished
  /\ UNCHANGED noInVars

\* main() after the input was found, before INIT STEP 3
InitCreate ==
  /\ InitCtrl
  /\ InitFbkIdle
  /\ InitConcIdle
  /\ InitPaceIdle /\ InitQuadIdle /\ InitForceIdle /\ InitInIdle /\ InitSetIdle
  /\ phase = "create"
  /\ input_connected = TRUE
  /\ diagnostic = FALSE
  /\ exit_code = -1
  /\ resets = 0
  /\ quadruped = "unset"
  /\ init_calls = <<>>

NextCreate ==
  \/ \E group_found \in BOOLEAN : Main_create(group_found)
  \/ \E outcome \in NullCall : Walk_setGains(outcome)
  \/ \E o \in Jitter, quit \in BOOLEAN : NullTick(o, quit)
  \/ NextCtrl

SpecCreate == InitCreate /\ [][NextCreate]_vars

\* C32: when create() returned nullptr, no method is called through the
\* pointer, before the loop or in it, and the loop runs no iteration
C32_NullCreateIsHandled ==
  quadruped = "null" => (init_calls = <<>> /\ calls = <<>> /\ tick_state = "none")

====
